---- MODULE Spec2Model ----
(***************************************************************************)
(* Model of src/bot.py: the aiogram handlers of the nutrition / hydration  *)
(* bot, the per-user FSM context (state + data) they drive, the global     *)
(* `users` dictionary, and the pure helpers they call.                     *)
(*                                                                         *)
(* Representation                                                          *)
(*   - a message text is a sequence of one-character strings;              *)
(*   - a Python float is a record [k, v]: k = "fin" with v the value in    *)
(*     1/Scale units, k = "nan", or k = "inf" with v the sign;             *)
(*   - an Optional value is a sequence of length 0 (None) or 1;            *)
(*   - a Python dict is a function whose DOMAIN is its key set;            *)
(*   - Cyrillic names of the source are transliterated (the module is      *)
(*     ASCII): beg = "бег", banan = "банан", chai = "чай", ...             *)
(*   - float arithmetic is exact decimal arithmetic: the modelled answers *)
(*     have at most two fractional digits and binary rounding is not       *)
(*     modelled;                                                           *)
(*   - `out` records the last message handled (sender, FSM state on        *)
(*     arrival, handler, reply); `vocabulary` fixes the texts of a run.    *)
(*                                                                         *)
(* Steps                                                                   *)
(*   The router offers each message to the handlers in registration order  *)
(*   and runs the first whose filter passes.  The Dispatcher is built with *)
(*   MemoryStorage, whose coroutines never suspend, so everything a        *)
(*   handler does to the FSM context and to `users` happens before its     *)
(*   first real await (the reply): one handled message is one step.        *)
(***************************************************************************)
EXTENDS Integers, Sequences, FiniteSets, Bags, TLC

VARIABLES users, state, data, out, vocabulary, inflight, blocking

vars == <<users, state, data, out, vocabulary, inflight, blocking>>

(***************************************************************************)
(* Bounds of the model.                                                    *)
(***************************************************************************)
MaxWater == 1600
MaxBurned == 600
MaxCalories == 60
MaxInFlight == 2
MaxNameLen == 3

(***************************************************************************)
(* Python str helpers, on sequences of characters.                         *)
(***************************************************************************)
Digits == {"0", "1", "2", "3", "4", "5", "6", "7", "8", "9"}

DigitVal(c) ==
    CASE c = "0" -> 0 [] c = "1" -> 1 [] c = "2" -> 2 [] c = "3" -> 3
      [] c = "4" -> 4 [] c = "5" -> 5 [] c = "6" -> 6 [] c = "7" -> 7
      [] c = "8" -> 8 [] c = "9" -> 9

IsSpace(c) == c = " "

RECURSIVE lstrip(_)
lstrip(s) ==
    IF s # <<>> /\ IsSpace(Head(s)) THEN lstrip(Tail(s)) ELSE s

RECURSIVE rstrip(_)
rstrip(s) ==
    IF s # <<>> /\ IsSpace(s[Len(s)]) THEN rstrip(SubSeq(s, 1, Len(s) - 1)) ELSE s

strip(s) == rstrip(lstrip(s))

replace(s, old, new) == [i \in 1..Len(s) |-> IF s[i] = old THEN new ELSE s[i]]

LowerChar(c) ==
    CASE c = "A" -> "a" [] c = "B" -> "b" [] c = "C" -> "c" [] c = "D" -> "d"
      [] c = "E" -> "e" [] c = "F" -> "f" [] c = "G" -> "g" [] c = "H" -> "h"
      [] c = "I" -> "i" [] c = "J" -> "j" [] c = "K" -> "k" [] c = "L" -> "l"
      [] c = "M" -> "m" [] c = "N" -> "n" [] c = "O" -> "o" [] c = "P" -> "p"
      [] c = "Q" -> "q" [] c = "R" -> "r" [] c = "S" -> "s" [] c = "T" -> "t"
      [] c = "U" -> "u" [] c = "V" -> "v" [] c = "W" -> "w" [] c = "X" -> "x"
      [] c = "Y" -> "y" [] c = "Z" -> "z"
      [] OTHER -> c

lower(s) == [i \in 1..Len(s) |-> LowerChar(s[i])]

\* Length of the leading run of non-space characters of s.
RECURSIVE WordLen(_)
WordLen(s) ==
    IF s = <<>> \/ IsSpace(Head(s)) THEN 0 ELSE 1 + WordLen(Tail(s))

\* str.split(): the whitespace-separated words of s.
RECURSIVE split(_)
SplitWord(t, n) == <<SubSeq(t, 1, n)>> \o split(SubSeq(t, n + 1, Len(t)))
SplitStripped(t) == IF t = <<>> THEN <<>> ELSE SplitWord(t, WordLen(t))
split(s) == SplitStripped(lstrip(s))

\* str.split(maxsplit=1): the first word, then the rest with its leading
\* whitespace removed (kept whole, trailing whitespace included).
SplitOnce(first, rest) == IF rest = <<>> THEN <<first>> ELSE <<first, rest>>
SplitFirst(t, n) == SplitOnce(SubSeq(t, 1, n), lstrip(SubSeq(t, n + 1, Len(t))))
SplitOnceStripped(t) == IF t = <<>> THEN <<>> ELSE SplitFirst(t, WordLen(t))
split_maxsplit1(s) == SplitOnceStripped(lstrip(s))

\* a in b for strings: a is a contiguous substring of b.
contains(b, a) ==
    \E i \in 1..(Len(b) - Len(a) + 1) : SubSeq(b, i, i + Len(a) - 1) = a

AllDigits(s) == s # <<>> /\ \A i \in 1..Len(s) : s[i] \in Digits

RECURSIVE DigitsVal(_)
DigitsVal(s) ==
    IF s = <<>> THEN 0
    ELSE 10 * DigitsVal(SubSeq(s, 1, Len(s) - 1)) + DigitVal(s[Len(s)])

(***************************************************************************)
(* Python floats.                                                          *)
(***************************************************************************)
Scale == 100

Fin(v) == [k |-> "fin", v |-> v]
NaN == [k |-> "nan", v |-> 0]
Inf(sign) == [k |-> "inf", v |-> sign]

HasSign(s) == s # <<>> /\ Head(s) \in {"+", "-"}
SignOf(s) == IF s # <<>> /\ Head(s) = "-" THEN -1 ELSE 1
Unsigned(s) == IF HasSign(s) THEN Tail(s) ELSE s

\* int(text): <<n>>, or <<>> when Python raises ValueError.
IntOfBody(sign, b) == IF AllDigits(b) THEN <<sign * DigitsVal(b)>> ELSE <<>>
IntOfStripped(t) == IntOfBody(SignOf(t), Unsigned(t))
int_of_str(s) == IntOfStripped(strip(s))

DotPos(s) ==
    IF \E i \in 1..Len(s) : s[i] = "."
    THEN CHOOSE i \in 1..Len(s) : s[i] = "." /\ \A j \in 1..(i - 1) : s[j] # "."
    ELSE 0

\* The fractional digits f as a number of 1/Scale units (two digits kept).
FracVal(f) ==
    IF Len(f) = 0 THEN 0
    ELSE IF Len(f) = 1 THEN 10 * DigitVal(f[1])
    ELSE 10 * DigitVal(f[1]) + DigitVal(f[2])

\* float(text): <<x>>, or <<>> when Python raises ValueError.  Decimal
\* literals with at most two fractional digits, "nan", "inf" and
\* "infinity" are read; exponents and digit separators are outside the
\* alphabet of the modelled texts.
FloatOfParts(sign, ip, fp) ==
    IF /\ ip \o fp # <<>>
       /\ \A i \in 1..Len(ip) : ip[i] \in Digits
       /\ \A i \in 1..Len(fp) : fp[i] \in Digits
       /\ Len(fp) <= 2
    THEN <<Fin(sign * (Scale * DigitsVal(ip) + FracVal(fp)))>>
    ELSE <<>>

FloatOfDecimal(sign, b, p) ==
    IF p = 0 THEN FloatOfParts(sign, b, <<>>)
    ELSE FloatOfParts(sign, SubSeq(b, 1, p - 1), SubSeq(b, p + 1, Len(b)))

FloatOfBody(sign, b) ==
    IF b = <<"n", "a", "n">> THEN <<NaN>>
    ELSE IF b = <<"i", "n", "f">> \/ b = <<"i", "n", "f", "i", "n", "i", "t", "y">>
    THEN <<Inf(sign)>>
    ELSE FloatOfDecimal(sign, b, DotPos(b))

FloatOfStripped(t) == FloatOfBody(SignOf(t), lower(Unsigned(t)))

float_of_str(s) == FloatOfStripped(strip(s))

\* x <= n and x > n for a float x and an integer n (false on NaN).
FloatLe(x, n) ==
    CASE x.k = "fin" -> x.v <= n * Scale
      [] x.k = "inf" -> x.v < 0
      [] x.k = "nan" -> FALSE

FloatGt(x, n) ==
    CASE x.k = "fin" -> x.v > n * Scale
      [] x.k = "inf" -> x.v > 0
      [] x.k = "nan" -> FALSE

\* int(n / d) for integers: truncation toward zero.
Trunc(n, d) == IF n >= 0 THEN n \div d ELSE -((-n) \div d)


(***************************************************************************)
(* Keys and names of the source's tables, as character sequences.          *)
(***************************************************************************)
KEY ==
    [BEG |-> <<"b", "e", "g">>,
     HODBA |-> <<"h", "o", "d", "b", "a">>,
     PLAVANIE |-> <<"p", "l", "a", "v", "a", "n", "i", "e">>,
     VELOSIPED |-> <<"v", "e", "l", "o", "s", "i", "p", "e", "d">>,
     SILOVAYA |-> <<"s", "i", "l", "o", "v", "a", "y", "a">>,
     YOGA |-> <<"y", "o", "g", "a">>,
     KARDIO |-> <<"k", "a", "r", "d", "i", "o">>,
     BANAN |-> <<"b", "a", "n", "a", "n">>,
     RIS |-> <<"r", "i", "s">>,
     HLEB |-> <<"h", "l", "e", "b">>,
     HLEB_CHERNYI |-> <<"h", "l", "e", "b", " ", "c", "h", "e", "r", "n", "y", "i">>,
     KOFE |-> <<"k", "o", "f", "e">>,
     CHAI |-> <<"c", "h", "a", "i">>]

NAME ==
    [BANAN |-> <<"B", "a", "n", "a", "n">>,
     RIS |-> <<"R", "i", "s", " ", "v", "a", "r", "e", "n", "y", "i">>,
     HLEB |-> <<"H", "l", "e", "b", " ", "b", "e", "l", "y", "i">>,
     HLEB_CHERNYI |-> <<"H", "l", "e", "b", " ", "c", "h", "e", "r", "n", "y", "i">>,
     KOFE |-> <<"K", "o", "f", "e", " ", "b", "e", "z", " ", "s", "a", "h", "a", "r", "a">>,
     CHAI |-> <<"C", "h", "a", "i", " ", "b", "e", "z", " ", "s", "a", "h", "a", "r", "a">>,
     REMOTE |-> <<"P", "i", "l", "a", "f">>]

(***************************************************************************)
(* Program constants.                                                      *)
(***************************************************************************)
\* WORKOUT_CALORIES: kcal per minute by workout type (keys transliterated:
\* beg, hodba, plavanie, velosiped, silovaya, yoga, kardio).
WORKOUT_CALORIES ==
    [key \in {KEY.BEG, KEY.HODBA, KEY.PLAVANIE, KEY.VELOSIPED, KEY.SILOVAYA,
              KEY.YOGA, KEY.KARDIO} |->
        CASE key = KEY.BEG -> 10
          [] key = KEY.HODBA -> 5
          [] key = KEY.PLAVANIE -> 8
          [] key = KEY.VELOSIPED -> 7
          [] key = KEY.SILOVAYA -> 6
          [] key = KEY.YOGA -> 3
          [] key = KEY.KARDIO -> 8]

DefaultCaloriesPerMin == 5

\* LOCAL_FOOD_DATABASE in insertion order, restricted to six of its entries
\* (banan, ris, hleb, hleb chernyi, kofe, chai), kcal per 100 g.
LOCAL_FOOD_DATABASE ==
    << [key |-> KEY.BANAN, name |-> NAME.BANAN, calories |-> 89],
       [key |-> KEY.RIS, name |-> NAME.RIS, calories |-> 130],
       [key |-> KEY.HLEB, name |-> NAME.HLEB, calories |-> 265],
       [key |-> KEY.HLEB_CHERNYI, name |-> NAME.HLEB_CHERNYI, calories |-> 201],
       [key |-> KEY.KOFE, name |-> NAME.KOFE, calories |-> 2],
       [key |-> KEY.CHAI, name |-> NAME.CHAI, calories |-> 0] >>

(***************************************************************************)
(* similarity: difflib.SequenceMatcher(None, a, b).ratio() = 2*M / T, as   *)
(* the pair <<2*M, T>>, M the Ratcliff/Obershelp matching-character count. *)
(***************************************************************************)
Min(S) == CHOOSE x \in S : \A y \in S : x <= y
Max(S) == CHOOSE x \in S : \A y \in S : x >= y

MatchAt(a, i, b, j, k) == SubSeq(a, i, i + k - 1) = SubSeq(b, j, j + k - 1)

\* find_longest_match: <<i, j, k>>, the longest common block, the earliest
\* in a and then the earliest in b among the longest; k = 0 when none.
BlockAt(a, b, k, i) == \E j \in 1..(Len(b) - k + 1) : MatchAt(a, i, b, j, k)

BlockOfLen(a, b, k) == \E i \in 1..(Len(a) - k + 1) : BlockAt(a, b, k, i)

LongestIn(a, b, k, i) ==
    <<i, Min({j \in 1..(Len(b) - k + 1) : MatchAt(a, i, b, j, k)}), k>>

LongestOfLen(a, b, k) ==
    IF k = 0 THEN <<0, 0, 0>>
    ELSE LongestIn(a, b, k, Min({i \in 1..(Len(a) - k + 1) : BlockAt(a, b, k, i)}))

LongestMatch(a, b) ==
    LongestOfLen(a, b, Max({k \in 0..Len(a) : BlockOfLen(a, b, k)}))

RECURSIVE MatchCount(_, _)
MatchCountAround(a, b, m) ==
    IF m[3] = 0 THEN 0
    ELSE m[3]
         + MatchCount(SubSeq(a, 1, m[1] - 1), SubSeq(b, 1, m[2] - 1))
         + MatchCount(SubSeq(a, m[1] + m[3], Len(a)), SubSeq(b, m[2] + m[3], Len(b)))

MatchCount(a, b) ==
    IF a = <<>> \/ b = <<>> THEN 0 ELSE MatchCountAround(a, b, LongestMatch(a, b))

Ratio(la, lb) ==
    IF Len(la) + Len(lb) = 0 THEN <<1, 1>>
    ELSE <<2 * MatchCount(la, lb), Len(la) + Len(lb)>>

similarity(a, b) == Ratio(lower(a), lower(b))

\* p > q for ratios p, q with positive denominators.
RatioGt(p, q) == p[1] * q[2] > q[1] * p[2]

\* The loop of find_in_local_db from catalog index i on, with the best
\* match so far: Optional entry.
RECURSIVE FuzzyFrom(_, _, _, _)
FuzzyStep(product_lower, i, entry, better, score, best_match, best_score) ==
    IF contains(product_lower, entry.key) \/ contains(entry.key, product_lower)
    THEN <<entry>>
    ELSE IF better THEN FuzzyFrom(product_lower, i + 1, <<entry>>, score)
    ELSE FuzzyFrom(product_lower, i + 1, best_match, best_score)

\* FuzzyScored that takes a key whose score equals the best so far.
FuzzyScored_last_wins(product_lower, i, score, best_match, best_score) ==
    FuzzyStep(product_lower, i, LOCAL_FOOD_DATABASE[i], ~RatioGt(best_score, score),
              score, best_match, best_score)

FuzzyScored(product_lower, i, score, best_match, best_score) ==
    FuzzyStep(product_lower, i, LOCAL_FOOD_DATABASE[i], RatioGt(score, best_score),
              score, best_match, best_score)

FuzzyFrom(product_lower, i, best_match, best_score) ==
    IF i > Len(LOCAL_FOOD_DATABASE)
    THEN IF RatioGt(best_score, <<6, 10>>) THEN best_match ELSE <<>>
    ELSE FuzzyScored(product_lower, i,
                     similarity(product_lower, LOCAL_FOOD_DATABASE[i].key),
                     best_match, best_score)

FindLower(product_lower, exact) ==
    IF exact # {} THEN <<LOCAL_FOOD_DATABASE[Min(exact)]>>
    ELSE FuzzyFrom(product_lower, 1, <<>>, <<0, 1>>)

ExactKeys(product_lower) ==
    {i \in 1..Len(LOCAL_FOOD_DATABASE) : LOCAL_FOOD_DATABASE[i].key = product_lower}

FindStripped(product_lower) == FindLower(product_lower, ExactKeys(product_lower))

find_in_local_db(product_name) == FindStripped(strip(lower(product_name)))

\* What the OpenFoodFacts request can produce: <<>> (an exception, a
\* non-200 status or an empty product list) or the first product, with its
\* product_name (Optional) and energy-kcal_100g (0 when missing).
RemoteFoodOutcomes ==
    { <<>>,
      <<[product_name |-> <<>>, calories |-> 0]>>,
      <<[product_name |-> <<NAME.REMOTE>>, calories |-> 100]>> }

\* get_food_info: Optional [name, calories]; remote is the outcome of the
\* request, read only when the local lookup returns nothing.
RemoteName(product_name, product) ==
    IF product.product_name # <<>> THEN product.product_name[1] ELSE product_name

\* FoodInfoOf that prefers the remote product when the request finds one.
FoodInfoOf_remote_first(product_name, local_result, remote) ==
    IF remote # <<>> /\ remote[1].calories # 0
    THEN <<[name |-> RemoteName(product_name, remote[1]),
            calories |-> remote[1].calories]>>
    ELSE IF local_result # <<>>
    THEN <<[name |-> local_result[1].name, calories |-> local_result[1].calories]>>
    ELSE <<>>

FoodInfoOf(product_name, local_result, remote) ==
    IF local_result # <<>>
    THEN <<[name |-> local_result[1].name, calories |-> local_result[1].calories]>>
    ELSE IF remote # <<>> /\ remote[1].calories # 0
    THEN <<[name |-> RemoteName(product_name, remote[1]),
            calories |-> remote[1].calories]>>
    ELSE <<>>

get_food_info(product_name, remote) ==
    FoodInfoOf(product_name, find_in_local_db(product_name), remote)

\* What get_weather can return: None (an exception or a non-200 status) or
\* the temperature of the response.
WeatherOutcomes == { <<>>, <<Fin(28 * Scale)>>, <<Fin(31 * Scale)>> }

\* calculate_water_goal whose tiers include their lower boundary.
calculate_water_goal_inclusive(weight, activity_minutes, temperature) ==
    LET base == weight.v * 30
        activity_bonus == (activity_minutes \div 30) * 500
        weather_bonus ==
            IF temperature # <<>>
            THEN IF temperature[1].v >= 30 * Scale THEN 1000
                 ELSE IF temperature[1].v >= 25 * Scale THEN 500 ELSE 0
            ELSE 0
    IN  Trunc(base + (activity_bonus + weather_bonus) * Scale, Scale)

\* calculate_water_goal with the bonuses of its two tiers exchanged.
calculate_water_goal_swapped(weight, activity_minutes, temperature) ==
    LET base == weight.v * 30
        activity_bonus == (activity_minutes \div 30) * 500
        weather_bonus ==
            IF temperature # <<>>
            THEN IF FloatGt(temperature[1], 30) THEN 500
                 ELSE IF FloatGt(temperature[1], 25) THEN 1000 ELSE 0
            ELSE 0
    IN  Trunc(base + (activity_bonus + weather_bonus) * Scale, Scale)

\* calculate_water_goal for a finite weight: int(base + bonuses).
calculate_water_goal(weight, activity_minutes, temperature) ==
    LET base == weight.v * 30
        activity_bonus == (activity_minutes \div 30) * 500
        weather_bonus ==
            IF temperature # <<>>
            THEN IF FloatGt(temperature[1], 30) THEN 1000
                 ELSE IF FloatGt(temperature[1], 25) THEN 500 ELSE 0
            ELSE 0
    IN  Trunc(base + (activity_bonus + weather_bonus) * Scale, Scale)

\* calculate_calorie_goal with 6 for the height's factor 6.25.
calculate_calorie_goal_whole_factor(weight, height, age, activity_minutes) ==
    Trunc(10 * weight.v * 100 + 600 * height.v - 5 * age * 100 * Scale
          + activity_minutes * 5 * 100 * Scale, 100 * Scale)

\* calculate_calorie_goal that rounds to the nearest integer.
calculate_calorie_goal_rounding(weight, height, age, activity_minutes) ==
    Trunc(10 * weight.v * 100 + 625 * height.v - 5 * age * 100 * Scale
          + activity_minutes * 5 * 100 * Scale + 50 * Scale, 100 * Scale)

\* calculate_calorie_goal for finite weight and height: int(base + bonus);
\* 6.25 * height is 625 * height.v in 1/(100 * Scale) units.
calculate_calorie_goal(weight, height, age, activity_minutes) ==
    LET base == 10 * weight.v * 100 + 625 * height.v - 5 * age * 100 * Scale
        activity_bonus == activity_minutes * 5
    IN  Trunc(base + activity_bonus * 100 * Scale, 100 * Scale)

\* int(x) that raises on infinity only.
IntRaises_only_infinity(x) == x.k = "inf"

\* int(x) of a float raises on NaN (ValueError) and infinity (OverflowError).
IntRaises(x) == x.k # "fin"


(***************************************************************************)
(* The message texts the users send.                                       *)
(***************************************************************************)
Txt ==
    [Start |-> <<"/", "s", "t", "a", "r", "t">>,
     SetProfile |-> <<"/", "s", "e", "t", "_", "p", "r", "o", "f", "i", "l", "e">>,
     LogWater800 |-> <<"/", "l", "o", "g", "_", "w", "a", "t", "e", "r", " ", "8", "0", "0">>,
     LogWaterNoArg |-> <<"/", "l", "o", "g", "_", "w", "a", "t", "e", "r">>,
     LogWaterBad |-> <<"/", "l", "o", "g", "_", "w", "a", "t", "e", "r", " ", "2", ",", "5">>,
     LogWaterZero |-> <<"/", "l", "o", "g", "_", "w", "a", "t", "e", "r", " ", "0">>,
     LogFoodBanan |-> <<"/", "l", "o", "g", "_", "f", "o", "o", "d", " ", "b", "a", "n", "a", "n">>,
     LogFoodChai |-> <<"/", "l", "o", "g", "_", "f", "o", "o", "d", " ", "c", "h", "a", "i">>,
     LogFoodBanany |-> <<"/", "l", "o", "g", "_", "f", "o", "o", "d", " ", "B", "a", "n", "a", "n", "y">>,
     LogFoodNoArg |-> <<"/", "l", "o", "g", "_", "f", "o", "o", "d">>,
     LogFoodPlov |-> <<"/", "l", "o", "g", "_", "f", "o", "o", "d", " ", "p", "l", "o", "v">>,
     LogWorkoutBeg45 |-> <<"/", "l", "o", "g", "_", "w", "o", "r", "k", "o", "u", "t", " ", "B", "e", "g", " ", "4", "5">>,
     LogWorkoutTennis30 |-> <<"/", "l", "o", "g", "_", "w", "o", "r", "k", "o", "u", "t", " ", "t", "e", "n", "n", "i", "s", " ", "3", "0">>,
     LogWorkoutNoMin |-> <<"/", "l", "o", "g", "_", "w", "o", "r", "k", "o", "u", "t", " ", "b", "e", "g">>,
     LogWorkoutZero |-> <<"/", "l", "o", "g", "_", "w", "o", "r", "k", "o", "u", "t", " ", "b", "e", "g", " ", "0">>,
     CheckProgress |-> <<"/", "c", "h", "e", "c", "k", "_", "p", "r", "o", "g", "r", "e", "s", "s">>,
     ShowGraph |-> <<"/", "s", "h", "o", "w", "_", "g", "r", "a", "p", "h">>,
     Recommendations |-> <<"/", "r", "e", "c", "o", "m", "m", "e", "n", "d", "a", "t", "i", "o", "n", "s">>,
     T70c5 |-> <<"7", "0", ",", "5">>,
     T30 |-> <<"3", "0">>,
     T0 |-> <<"0">>,
     Nan |-> <<"n", "a", "n">>]

Texts ==
    {Txt.Start, Txt.SetProfile, Txt.LogWater800, Txt.LogWaterNoArg,
     Txt.LogWaterBad, Txt.LogWaterZero, Txt.LogFoodBanan, Txt.LogFoodBanany, Txt.LogFoodChai,
     Txt.LogFoodNoArg, Txt.LogFoodPlov, Txt.LogWorkoutBeg45, Txt.LogWorkoutTennis30,
     Txt.LogWorkoutNoMin, Txt.LogWorkoutZero, Txt.CheckProgress, Txt.ShowGraph,
     Txt.Recommendations, Txt.T70c5, Txt.T30, Txt.T0,
     Txt.Nan }

\* Each run draws its texts from one vocabulary, fixed when it starts.
Vocabularies ==
    [setup |-> {Txt.Start, Txt.SetProfile, Txt.T70c5, Txt.T30, Txt.T0, Txt.Nan},
     food |-> {Txt.Start, Txt.SetProfile, Txt.T30, Txt.Nan,
               Txt.LogFoodBanan, Txt.LogFoodBanany, Txt.LogFoodChai, Txt.LogFoodPlov,
               Txt.LogFoodNoArg},
     commands |-> {Txt.SetProfile, Txt.T30, Txt.LogWater800, Txt.LogWaterNoArg,
                   Txt.LogWaterBad, Txt.LogWaterZero, Txt.LogWorkoutBeg45,
                   Txt.LogWorkoutTennis30, Txt.LogWorkoutNoMin, Txt.LogWorkoutZero,
                   Txt.CheckProgress, Txt.ShowGraph, Txt.Recommendations},
     tasks |-> {Txt.SetProfile, Txt.T30, Txt.LogWater800},
     lookups |-> {Txt.SetProfile, Txt.T30, Txt.LogFoodPlov},
     goals |-> {},
     pair |-> {Txt.SetProfile, Txt.T30, Txt.LogWater800}]

Users == {1, 2}

\* The users who send messages in Spec.
Senders == {1}

(***************************************************************************)
(* The FSM context of aiogram's MemoryStorage: per user a state and a data *)
(* dict.  set_state replaces the state only; update_data merges keys;      *)
(* clear resets both.                                                      *)
(***************************************************************************)
NoState == "None"
ProfileSetup_weight == "ProfileSetup:weight"
ProfileSetup_height == "ProfileSetup:height"
ProfileSetup_age == "ProfileSetup:age"
ProfileSetup_activity == "ProfileSetup:activity"
ProfileSetup_city == "ProfileSetup:city"
FoodLogging_waiting_for_grams == "FoodLogging:waiting_for_grams"

EmptyDict == [key \in {} |-> 0]

update_data(d, key, value) ==
    [x \in DOMAIN d \cup {key} |-> IF x = key THEN value ELSE d[x]]

(***************************************************************************)
(* Routing: the router offers a message to the handlers in the order of    *)
(* their registration; the first whose filter passes handles it.           *)
(***************************************************************************)
Handlers ==
    << "cmd_start", "cmd_set_profile", "process_weight", "process_height",
       "process_age", "process_activity", "process_city", "cmd_log_water",
       "cmd_log_food", "process_food_grams", "cmd_log_workout",
       "cmd_check_progress", "cmd_show_graph", "cmd_recommendations" >>

\* Command(name): the first word of the text is "/" followed by name.
Command(words, name) == words # <<>> /\ words[1] = <<"/">> \o name

Filter(h, st, words) ==
    CASE h = "cmd_start" -> Command(words, <<"s", "t", "a", "r", "t">>)
      [] h = "cmd_set_profile" ->
            Command(words, <<"s", "e", "t", "_", "p", "r", "o", "f", "i", "l", "e">>)
      [] h = "process_weight" -> st = ProfileSetup_weight
      [] h = "process_height" -> st = ProfileSetup_height
      [] h = "process_age" -> st = ProfileSetup_age
      [] h = "process_activity" -> st = ProfileSetup_activity
      [] h = "process_city" -> st = ProfileSetup_city
      [] h = "cmd_log_water" ->
            Command(words, <<"l", "o", "g", "_", "w", "a", "t", "e", "r">>)
      [] h = "cmd_log_food" ->
            Command(words, <<"l", "o", "g", "_", "f", "o", "o", "d">>)
      [] h = "process_food_grams" -> st = FoodLogging_waiting_for_grams
      [] h = "cmd_log_workout" ->
            Command(words, <<"l", "o", "g", "_", "w", "o", "r", "k", "o", "u", "t">>)
      [] h = "cmd_check_progress" ->
            Command(words, <<"c", "h", "e", "c", "k", "_", "p", "r", "o", "g", "r", "e", "s", "s">>)
      [] h = "cmd_show_graph" ->
            Command(words, <<"s", "h", "o", "w", "_", "g", "r", "a", "p", "h">>)
      [] h = "cmd_recommendations" ->
            Command(words, <<"r", "e", "c", "o", "m", "m", "e", "n", "d", "a", "t", "i", "o", "n", "s">>)

FirstMatch(matching) ==
    IF matching = {} THEN "unhandled" ELSE Handlers[Min(matching)]

RouteWords(st, words) ==
    FirstMatch({i \in 1..Len(Handlers) : Filter(Handlers[i], st, words)})

Route(st, text) == RouteWords(st, split(text))

\* The handler a text reaches in each FSM state, computed once.
States ==
    {NoState, ProfileSetup_weight, ProfileSetup_height, ProfileSetup_age,
     ProfileSetup_activity, ProfileSetup_city, FoodLogging_waiting_for_grams}

RouteTable == [st \in States |-> [text \in Texts |-> Route(st, text)]]

\* The last message handled: its sender, the FSM state it arrived in, the
\* handler that ran and the reply it sent.  The run's vocabulary never
\* changes.
Reply(u, h, r) ==
    /\ out' = [user |-> u, at |-> state[u], handler |-> h, reply |-> r]
    /\ UNCHANGED vocabulary


(***************************************************************************)
(* Validation of the dialog answers and command arguments.                 *)
(***************************************************************************)
\* float(text.replace(",", ".")) accepted unless x <= 0 or x > limit.
FloatInRange(x, limit) ==
    IF x # <<>> /\ ~(FloatLe(x[1], 0) \/ FloatGt(x[1], limit)) THEN x ELSE <<>>

float_answer(text, limit) == FloatInRange(float_of_str(replace(text, ",", ".")), limit)

weight_answer(text) == float_answer(text, 500)

height_answer(text) == float_answer(text, 300)

AgeInRange(age) ==
    IF age # <<>> /\ ~(age[1] <= 0 \/ age[1] > 150) THEN age ELSE <<>>

age_answer(text) == AgeInRange(int_of_str(text))

ActivityInRange(activity) ==
    IF activity # <<>> /\ ~(activity[1] < 0 \/ activity[1] > 1440)
    THEN activity ELSE <<>>

activity_answer(text) == ActivityInRange(int_of_str(text))

\* float(text.replace(",", ".")) accepted unless grams <= 0.
GramsPositive(grams) ==
    IF grams # <<>> /\ ~FloatLe(grams[1], 0) THEN grams ELSE <<>>

grams_answer(text) == GramsPositive(float_of_str(replace(text, ",", ".")))

\* IntPositive that accepts zero.
IntPositive_or_zero(n) == IF n # <<>> /\ ~(n[1] < 0) THEN n ELSE <<>>

\* int(arg) accepted unless n <= 0 (amount of log_water, minutes of
\* log_workout).
IntPositive(n) == IF n # <<>> /\ ~(n[1] <= 0) THEN n ELSE <<>>

positive_int(arg) == IntPositive(int_of_str(arg))

\* (food_calories / 100) * grams, in 1/(100 * Scale) kcal.
food_calories_of(food_calories, grams) ==
    CASE grams.k = "fin" -> Fin(food_calories * grams.v)
      [] grams.k = "nan" -> NaN
      [] grams.k = "inf" -> IF food_calories = 0 THEN NaN
                            ELSE Inf(IF food_calories > 0 THEN grams.v ELSE -grams.v)

\* x + y for floats of the same unit.
FloatAdd(x, y) ==
    CASE x.k = "nan" \/ y.k = "nan" -> NaN
      [] x.k = "inf" /\ y.k = "inf" -> IF x.v = y.v THEN x ELSE NaN
      [] x.k = "inf" -> x
      [] y.k = "inf" -> y
      [] OTHER -> Fin(x.v + y.v)

calories_per_min_of(workout_type) ==
    IF workout_type \in DOMAIN WORKOUT_CALORIES
    THEN WORKOUT_CALORIES[workout_type] ELSE DefaultCaloriesPerMin

\* extra_water_of that takes the workout's water off the goal.
extra_water_of_deducted(minutes) ==
    LET extra_water == (minutes \div 30) * 200
    IN  IF minutes % 30 > 0 THEN -(extra_water + 200) ELSE -extra_water

\* extra_water_of that counts whole 30-minute blocks only.
extra_water_of_whole_blocks(minutes) == (minutes \div 30) * 200

extra_water_of(minutes) ==
    LET extra_water == (minutes \div 30) * 200
    IN  IF minutes % 30 > 0 THEN extra_water + 200 ELSE extra_water

\* remaining_of without the clamp at zero.
remaining_of_unclamped(goal, logged) == goal - logged

remaining_of(goal, logged) == IF goal - logged > 0 THEN goal - logged ELSE 0

\* What the handlers compute from message.text alone, computed once per
\* text: the answer it is at each dialog step, and the arguments it carries
\* as each command.
MessageOf(text, args, food_args) ==
    [text |-> text,
     weight |-> weight_answer(text),
     height |-> height_answer(text),
     age |-> age_answer(text),
     activity |-> activity_answer(text),
     city |-> strip(text),
     grams |-> grams_answer(text),
     args |-> args,
     amount |-> IF Len(args) < 2 THEN <<>> ELSE positive_int(args[2]),
     minutes |-> IF Len(args) < 3 THEN <<>> ELSE positive_int(args[3]),
     workout_type |-> IF Len(args) < 2 THEN <<>> ELSE lower(args[2]),
     food_args |-> food_args]

Message == [text \in Texts |-> MessageOf(text, split(text), split_maxsplit1(text))]

\* get_food_info of the product named by a /log_food text, for each
\* outcome of the remote request.
FoodInfoOfArgs(food_args) ==
    [remote \in RemoteFoodOutcomes |->
        IF Len(food_args) < 2 THEN <<>> ELSE get_food_info(food_args[2], remote)]

FoodInfo == [text \in Texts |-> FoodInfoOfArgs(split_maxsplit1(text))]

\* The request get_food_info makes for the product named by a /log_food
\* text: none when find_in_local_db returns an entry, else the one request
\* whose outcome is remote.
RequestOfArgs(food_args) ==
    [remote \in RemoteFoodOutcomes |->
        IF Len(food_args) < 2 THEN <<>>
        ELSE IF find_in_local_db(food_args[2]) # <<>> THEN <<>> ELSE <<remote>>]

Request == [text \in Texts |-> RequestOfArgs(split_maxsplit1(text))]

\* What each tier of find_in_local_db returns for the product named by a
\* /log_food text: the entry under the exact key, and the entry of the
\* fuzzy loop.
TiersOfProduct(product_lower, exact) ==
    [exact |-> IF exact # {} THEN <<LOCAL_FOOD_DATABASE[Min(exact)]>> ELSE <<>>,
     fuzzy |-> FuzzyFrom(product_lower, 1, <<>>, <<0, 1>>)]

TiersOfLower(product_lower) == TiersOfProduct(product_lower, ExactKeys(product_lower))

TiersOfArgs(food_args) ==
    IF Len(food_args) < 2 THEN [exact |-> <<>>, fuzzy |-> <<>>]
    ELSE TiersOfLower(strip(lower(food_args[2])))

Tiers == [text \in Texts |-> TiersOfArgs(split_maxsplit1(text))]

\* The dict process_city stores in users[user_id].
new_profile(d, city, water_goal, calorie_goal) ==
    [weight |-> d.weight, height |-> d.height, age |-> d.age,
     activity |-> d.activity, city |-> city,
     water_goal |-> water_goal, calorie_goal |-> calorie_goal,
     logged_water |-> 0, logged_calories |-> Fin(0), burned_calories |-> 0,
     history |-> <<>>]

\* set_user that keeps the ledger of a record it replaces.
set_user_merging(u, profile) ==
    users' = [x \in DOMAIN users \cup {u} |->
                 IF x # u THEN users[x]
                 ELSE IF u \in DOMAIN users
                 THEN [profile EXCEPT !.logged_water = users[u].logged_water,
                                      !.logged_calories = users[u].logged_calories,
                                      !.burned_calories = users[u].burned_calories]
                 ELSE profile]

\* set_user that assigns a map holding the one record.
set_user_alone(u, profile) ==
    users' = [x \in {u} |-> profile]

set_user(u, profile) ==
    users' = [x \in DOMAIN users \cup {u} |-> IF x = u THEN profile ELSE users[x]]

(***************************************************************************)
(* The handlers.  Each runs from its filter to its first reply without     *)
(* yielding: MemoryStorage's coroutines never suspend, so the state change *)
(* of one message is a single step.                                        *)
(***************************************************************************)
cmd_start(u, msg) ==
    /\ Reply(u, "cmd_start", [kind |-> "help"])
    /\ UNCHANGED <<users, state, data>>

\* cmd_set_profile that begins a setup by dropping the stored profile.
cmd_set_profile_dropping(u, msg) ==
    /\ users' = [x \in DOMAIN users \ {u} |-> users[x]]
    /\ state' = [state EXCEPT ![u] = ProfileSetup_weight]
    /\ Reply(u, "cmd_set_profile", [kind |-> "ask_weight"])
    /\ UNCHANGED data

cmd_set_profile(u, msg) ==
    /\ state' = [state EXCEPT ![u] = ProfileSetup_weight]
    /\ Reply(u, "cmd_set_profile", [kind |-> "ask_weight"])
    /\ UNCHANGED <<users, data>>

\* The common shape of process_weight .. process_activity.
process_step(u, h, answer, key, next, ask, again) ==
    IF answer # <<>>
    THEN /\ data' = [data EXCEPT ![u] = update_data(@, key, answer[1])]
         /\ state' = [state EXCEPT ![u] = next]
         /\ Reply(u, h, [kind |-> ask])
         /\ UNCHANGED users
    ELSE /\ Reply(u, h, [kind |-> again])
         /\ UNCHANGED <<users, state, data>>

process_weight(u, msg) ==
    /\ process_step(u, "process_weight", msg.weight, "weight",
                    ProfileSetup_height, "ask_height", "bad_weight")

process_height(u, msg) ==
    /\ process_step(u, "process_height", msg.height, "height",
                    ProfileSetup_age, "ask_age", "bad_height")

process_age(u, msg) ==
    /\ process_step(u, "process_age", msg.age, "age",
                    ProfileSetup_activity, "ask_activity", "bad_age")

process_activity(u, msg) ==
    /\ process_step(u, "process_activity", msg.activity, "activity",
                    ProfileSetup_city, "ask_city", "bad_activity")

process_city(u, msg) ==
    /\ \E temperature \in WeatherOutcomes :
          LET city == msg.city
              d == data[u]
          IN  IF IntRaises(d.weight) \/ IntRaises(d.height)
              THEN \* int(nan) raises ValueError out of the handler
                   /\ Reply(u, "process_city", [kind |-> "exception"])
                   /\ UNCHANGED <<users, state, data>>
              ELSE LET water_goal ==
                           calculate_water_goal(d.weight, d.activity, temperature)
                       calorie_goal ==
                           calculate_calorie_goal(d.weight, d.height, d.age, d.activity)
                   IN  /\ set_user(u, new_profile(d, city, water_goal, calorie_goal))
                       /\ state' = [state EXCEPT ![u] = NoState]
                       /\ data' = [data EXCEPT ![u] = EmptyDict]
                       /\ Reply(u, "process_city",
                                [kind |-> "profile_saved",
                                 replaced |-> u \in DOMAIN users,
                                 temperature |-> temperature,
                                 water_goal |-> water_goal, calorie_goal |-> calorie_goal])

\* profile_required that creates an empty record for the unknown user.
profile_required_creating(u, h) ==
    /\ set_user(u, [logged_water |-> 0, logged_calories |-> Fin(0),
                    burned_calories |-> 0, history |-> <<>>])
    /\ Reply(u, h, [kind |-> "profile_required"])
    /\ UNCHANGED <<state, data>>

profile_required(u, h) ==
    /\ Reply(u, h, [kind |-> "profile_required"])
    /\ UNCHANGED <<users, state, data>>

\* cmd_log_water whose update is lost when another cmd_log_water task of the
\* user is still sending its reply.
cmd_log_water_racing(u, msg) ==
    /\ IF u \notin DOMAIN users THEN profile_required(u, "cmd_log_water")
       ELSE LET args == msg.args
                amount == msg.amount
            IN  IF Len(args) < 2
                THEN /\ Reply(u, "cmd_log_water", [kind |-> "usage"])
                     /\ UNCHANGED <<users, state, data>>
                ELSE IF amount = <<>>
                THEN /\ Reply(u, "cmd_log_water", [kind |-> "bad_amount"])
                     /\ UNCHANGED <<users, state, data>>
                ELSE LET logged == IF BagIn([user |-> u, handler |-> "cmd_log_water"], inflight)
                                   THEN users[u].logged_water
                                   ELSE users[u].logged_water + amount[1]
                         goal == users[u].water_goal
                     IN  /\ logged <= MaxWater
                         /\ users' = [users EXCEPT ![u].logged_water = logged]
                         /\ Reply(u, "cmd_log_water",
                                  [kind |-> "water_logged", amount |-> amount[1],
                                   logged |-> logged, goal |-> goal,
                                   remaining |-> remaining_of(goal, logged)])
                         /\ UNCHANGED <<state, data>>

cmd_log_water(u, msg) ==
    /\ IF u \notin DOMAIN users THEN profile_required(u, "cmd_log_water")
       ELSE LET args == msg.args
                amount == msg.amount
            IN  IF Len(args) < 2
                THEN /\ Reply(u, "cmd_log_water", [kind |-> "usage"])
                     /\ UNCHANGED <<users, state, data>>
                ELSE IF amount = <<>>
                THEN /\ Reply(u, "cmd_log_water", [kind |-> "bad_amount"])
                     /\ UNCHANGED <<users, state, data>>
                ELSE LET logged == users[u].logged_water + amount[1]
                         goal == users[u].water_goal
                     IN  /\ logged <= MaxWater
                         /\ users' = [users EXCEPT ![u].logged_water = logged]
                         /\ Reply(u, "cmd_log_water",
                                  [kind |-> "water_logged", amount |-> amount[1],
                                   logged |-> logged, goal |-> goal,
                                   remaining |-> remaining_of(goal, logged)])
                         /\ UNCHANGED <<state, data>>

\* cmd_log_food that asks for the grams of any entry found, zero calories
\* included.
cmd_log_food_accepting_zero(u, msg) ==
    /\ IF u \notin DOMAIN users THEN profile_required(u, "cmd_log_food")
       ELSE IF Len(msg.food_args) < 2
       THEN /\ Reply(u, "cmd_log_food", [kind |-> "usage"])
            /\ UNCHANGED <<users, state, data>>
       ELSE \E remote \in RemoteFoodOutcomes :
               LET food_info == FoodInfo[msg.text][remote]
               IN  IF food_info = <<>>
                   THEN /\ Reply(u, "cmd_log_food",
                                 [kind |-> "not_found",
                                  product_name |-> msg.food_args[2],
                                  request |-> Request[msg.text][remote]])
                        /\ UNCHANGED <<users, state, data>>
                   ELSE /\ data' = [data EXCEPT ![u] =
                              update_data(
                                  update_data(@, "food_name", food_info[1].name),
                                  "food_calories", food_info[1].calories)]
                        /\ state' = [state EXCEPT ![u] = FoodLogging_waiting_for_grams]
                        /\ Reply(u, "cmd_log_food",
                                 [kind |-> "ask_grams",
                                  name |-> food_info[1].name,
                                  calories |-> food_info[1].calories,
                                  request |-> Request[msg.text][remote]])
                        /\ UNCHANGED users

\* cmd_log_food that does not ask for a profile.
cmd_log_food_without_profile(u, msg) ==
    /\ IF FALSE THEN profile_required(u, "cmd_log_food")
       ELSE LET args == msg.food_args
            IN  IF Len(args) < 2
                THEN /\ Reply(u, "cmd_log_food", [kind |-> "usage"])
                     /\ UNCHANGED <<users, state, data>>
                ELSE \E remote \in RemoteFoodOutcomes :
                        LET food_info == FoodInfo[msg.text][remote]
                        IN  IF food_info = <<>> \/ food_info[1].calories = 0
                            THEN /\ Reply(u, "cmd_log_food",
                                          [kind |-> "not_found",
                                           product_name |-> args[2],
                                           request |-> Request[msg.text][remote]])
                                 /\ UNCHANGED <<users, state, data>>
                            ELSE /\ data' = [data EXCEPT ![u] =
                                       update_data(
                                           update_data(@, "food_name", food_info[1].name),
                                           "food_calories", food_info[1].calories)]
                                 /\ state' = [state EXCEPT ![u] =
                                                 FoodLogging_waiting_for_grams]
                                 /\ Reply(u, "cmd_log_food",
                                          [kind |-> "ask_grams",
                                           name |-> food_info[1].name,
                                           calories |-> food_info[1].calories,
                                           request |-> Request[msg.text][remote]])
                                 /\ UNCHANGED users

cmd_log_food(u, msg) ==
    /\ IF u \notin DOMAIN users THEN profile_required(u, "cmd_log_food")
       ELSE LET args == msg.food_args
            IN  IF Len(args) < 2
                THEN /\ Reply(u, "cmd_log_food", [kind |-> "usage"])
                     /\ UNCHANGED <<users, state, data>>
                ELSE \E remote \in RemoteFoodOutcomes :
                        LET food_info == FoodInfo[msg.text][remote]
                        IN  IF food_info = <<>> \/ food_info[1].calories = 0
                            THEN /\ Reply(u, "cmd_log_food",
                                          [kind |-> "not_found",
                                           product_name |-> args[2],
                                           request |-> Request[msg.text][remote]])
                                 /\ UNCHANGED <<users, state, data>>
                            ELSE /\ data' = [data EXCEPT ![u] =
                                       update_data(
                                           update_data(@, "food_name", food_info[1].name),
                                           "food_calories", food_info[1].calories)]
                                 /\ state' = [state EXCEPT ![u] =
                                                 FoodLogging_waiting_for_grams]
                                 /\ Reply(u, "cmd_log_food",
                                          [kind |-> "ask_grams",
                                           name |-> food_info[1].name,
                                           calories |-> food_info[1].calories,
                                           request |-> Request[msg.text][remote]])
                                 /\ UNCHANGED users

\* process_food_grams that adds the calories and keeps the session.
process_food_grams_keeping_session(u, msg) ==
    /\ LET grams == msg.grams
       IN  IF grams = <<>>
           THEN /\ Reply(u, "process_food_grams", [kind |-> "bad_grams"])
                /\ UNCHANGED <<users, state, data>>
           ELSE IF "food_calories" \notin DOMAIN data[u] \/ u \notin DOMAIN users
           THEN \* KeyError out of the handler
                /\ Reply(u, "process_food_grams", [kind |-> "exception"])
                /\ UNCHANGED <<users, state, data>>
           ELSE LET calories == food_calories_of(data[u].food_calories, grams[1])
                    logged == FloatAdd(users[u].logged_calories, calories)
                IN  /\ logged.k = "fin" => logged.v <= MaxCalories * 100 * Scale
                    /\ users' = [users EXCEPT ![u].logged_calories = logged]
                    /\ UNCHANGED <<state, data>>
                    /\ Reply(u, "process_food_grams",
                             [kind |-> "food_logged", calories |-> calories,
                              grams |-> grams[1]])

process_food_grams(u, msg) ==
    /\ LET grams == msg.grams
       IN  IF grams = <<>>
           THEN /\ Reply(u, "process_food_grams", [kind |-> "bad_grams"])
                /\ UNCHANGED <<users, state, data>>
           ELSE IF "food_calories" \notin DOMAIN data[u] \/ u \notin DOMAIN users
           THEN \* KeyError out of the handler
                /\ Reply(u, "process_food_grams", [kind |-> "exception"])
                /\ UNCHANGED <<users, state, data>>
           ELSE LET calories == food_calories_of(data[u].food_calories, grams[1])
                    logged == FloatAdd(users[u].logged_calories, calories)
                IN  /\ logged.k = "fin" => logged.v <= MaxCalories * 100 * Scale
                    /\ users' = [users EXCEPT ![u].logged_calories = logged]
                    /\ state' = [state EXCEPT ![u] = NoState]
                    /\ data' = [data EXCEPT ![u] = EmptyDict]
                    /\ Reply(u, "process_food_grams",
                             [kind |-> "food_logged", calories |-> calories,
                              grams |-> grams[1]])

cmd_log_workout(u, msg) ==
    /\ IF u \notin DOMAIN users THEN profile_required(u, "cmd_log_workout")
       ELSE LET args == msg.args
                minutes == msg.minutes
            IN  IF Len(args) < 3
                THEN /\ Reply(u, "cmd_log_workout", [kind |-> "usage"])
                     /\ UNCHANGED <<users, state, data>>
                ELSE IF minutes = <<>>
                THEN /\ Reply(u, "cmd_log_workout", [kind |-> "bad_minutes"])
                     /\ UNCHANGED <<users, state, data>>
                ELSE LET workout_type == msg.workout_type
                         burned_calories == calories_per_min_of(workout_type) * minutes[1]
                         extra_water == extra_water_of(minutes[1])
                     IN  /\ users[u].burned_calories + burned_calories <= MaxBurned
                         /\ users' = [users EXCEPT
                                ![u].burned_calories = @ + burned_calories,
                                ![u].water_goal = @ + extra_water]
                         /\ Reply(u, "cmd_log_workout",
                                  [kind |-> "workout_logged", minutes |-> minutes[1],
                                   workout_type |-> workout_type,
                                   burned_calories |-> burned_calories,
                                   extra_water |-> extra_water])
                         /\ UNCHANGED <<state, data>>

cmd_check_progress(u, msg) ==
    /\ IF u \notin DOMAIN users THEN profile_required(u, "cmd_check_progress")
       ELSE /\ Reply(u, "cmd_check_progress",
                     [kind |-> "progress",
                      water_remaining |->
                          remaining_of(users[u].water_goal, users[u].logged_water)])
            /\ UNCHANGED <<users, state, data>>

cmd_show_graph(u, msg) ==
    /\ IF u \notin DOMAIN users THEN profile_required(u, "cmd_show_graph")
       ELSE /\ Reply(u, "cmd_show_graph", [kind |-> "chart"])
            /\ UNCHANGED <<users, state, data>>

cmd_recommendations(u, msg) ==
    /\ IF u \notin DOMAIN users THEN profile_required(u, "cmd_recommendations")
       ELSE /\ Reply(u, "cmd_recommendations", [kind |-> "recommendations"])
            /\ UNCHANGED <<users, state, data>>

\* No filter passes: the update is dropped.
unhandled(u, msg) ==
    /\ Reply(u, "unhandled", [kind |-> "none"])
    /\ UNCHANGED <<users, state, data>>

(***************************************************************************)
(* The specification: the senders' messages arrive one at a time, in any   *)
(* order.                                                                  *)
(***************************************************************************)
Init ==
    /\ users = [u \in {} |-> 0]
    /\ state = [u \in Users |-> NoState]
    /\ data = [u \in Users |-> EmptyDict]
    /\ out = [user |-> 0, at |-> NoState, handler |-> "none", reply |-> [kind |-> "none"]]
    /\ vocabulary \in {"setup", "food", "commands"}
    /\ inflight = EmptyBag
    /\ blocking = <<>>

\* Message text of user u reaches handler h.
Routed(u, text, h) == RouteTable[state[u]][text] = h

\* The messages the senders can send in the run's vocabulary.
Inbox == Senders \X Vocabularies[vocabulary]

\* The handler's reply is sent before the next message is handled, and its
\* requests return within its step.
Awaited == UNCHANGED <<inflight, blocking>>

Next ==
    \/ \E m \in Inbox : Routed(m[1], m[2], "cmd_start") /\ cmd_start(m[1], Message[m[2]]) /\ Awaited
    \/ \E m \in Inbox : Routed(m[1], m[2], "cmd_set_profile") /\ cmd_set_profile(m[1], Message[m[2]]) /\ Awaited
    \/ \E m \in Inbox : Routed(m[1], m[2], "process_weight") /\ process_weight(m[1], Message[m[2]]) /\ Awaited
    \/ \E m \in Inbox : Routed(m[1], m[2], "process_height") /\ process_height(m[1], Message[m[2]]) /\ Awaited
    \/ \E m \in Inbox : Routed(m[1], m[2], "process_age") /\ process_age(m[1], Message[m[2]]) /\ Awaited
    \/ \E m \in Inbox : Routed(m[1], m[2], "process_activity") /\ process_activity(m[1], Message[m[2]]) /\ Awaited
    \/ \E m \in Inbox : Routed(m[1], m[2], "process_city") /\ process_city(m[1], Message[m[2]]) /\ Awaited
    \/ \E m \in Inbox : Routed(m[1], m[2], "cmd_log_water") /\ cmd_log_water(m[1], Message[m[2]]) /\ Awaited
    \/ \E m \in Inbox : Routed(m[1], m[2], "cmd_log_food") /\ cmd_log_food(m[1], Message[m[2]]) /\ Awaited
    \/ \E m \in Inbox : Routed(m[1], m[2], "process_food_grams") /\ process_food_grams(m[1], Message[m[2]]) /\ Awaited
    \/ \E m \in Inbox : Routed(m[1], m[2], "cmd_log_workout") /\ cmd_log_workout(m[1], Message[m[2]]) /\ Awaited
    \/ \E m \in Inbox : Routed(m[1], m[2], "cmd_check_progress") /\ cmd_check_progress(m[1], Message[m[2]]) /\ Awaited
    \/ \E m \in Inbox : Routed(m[1], m[2], "cmd_show_graph") /\ cmd_show_graph(m[1], Message[m[2]]) /\ Awaited
    \/ \E m \in Inbox : Routed(m[1], m[2], "cmd_recommendations") /\ cmd_recommendations(m[1], Message[m[2]]) /\ Awaited
    \/ \E m \in Inbox : Routed(m[1], m[2], "unhandled") /\ unhandled(m[1], Message[m[2]]) /\ Awaited

Spec == Init /\ [][Next]_vars

(***************************************************************************)
(* The handlers as tasks.  The dispatcher handles each update in a task of *)
(* its own.  A task runs without yielding from its filter to its           *)
(* `await message.answer(...)`, where it stays until the reply is sent     *)
(* while other tasks run: `inflight` holds the tasks sending a reply, each *)
(* as its user and its handler.                                            *)
(* get_weather and get_food_info call requests.get, which does not yield:  *)
(* from the start of the request to its return (`blocking` holds the       *)
(* message being handled) the event loop runs nothing else.                *)
(***************************************************************************)
InitTasks ==
    /\ users = [u \in {} |-> 0]
    /\ state = [u \in Users |-> NoState]
    /\ data = [u \in Users |-> EmptyDict]
    /\ out = [user |-> 0, at |-> NoState, handler |-> "none", reply |-> [kind |-> "none"]]
    /\ vocabulary \in {"tasks", "lookups"}
    /\ inflight = EmptyBag
    /\ blocking = <<>>

\* The messages of the run: user 1 sends the vocabulary's texts, user 2
\* sends /set_profile.
TaskInbox == ({1} \X Vocabularies[vocabulary]) \cup ({2} \X {Txt.SetProfile})

\* The handler of message m makes a request: process_city always,
\* cmd_log_food when the local catalog has no entry for the product.
Requests(m) ==
    \/ Routed(m[1], m[2], "process_city")
    \/ /\ Routed(m[1], m[2], "cmd_log_food")
       /\ m[1] \in DOMAIN users
       /\ Request[m[2]][<<>>] # <<>>

\* The task that handled a message reaches its `await message.answer`.
Replying ==
    /\ BagCardinality(inflight) < MaxInFlight
    /\ inflight' = inflight (+) SetToBag({[user |-> out'.user, handler |-> out'.handler]})

\* A task runs when the event loop is free; it makes no request.
Runs(m, h) ==
    /\ blocking = <<>>
    /\ Routed(m[1], m[2], h)
    /\ ~Requests(m)
    /\ UNCHANGED blocking

\* requests.get is called: the event loop is held until it returns.
request_sent(m) ==
    /\ blocking = <<>>
    /\ Requests(m)
    /\ BagCardinality(inflight) < MaxInFlight
    /\ blocking' = <<m>>
    /\ UNCHANGED <<users, state, data, out, vocabulary, inflight>>

\* requests.get returns or raises: handler h goes on to its reply.
Returned(h) ==
    /\ blocking # <<>>
    /\ Routed(blocking[1][1], blocking[1][2], h)
    /\ blocking' = <<>>

\* message.answer returns: the task ends.
answer_sent(task) ==
    /\ blocking = <<>>
    /\ inflight' = inflight (-) SetToBag({task})
    /\ UNCHANGED <<users, state, data, out, vocabulary, blocking>>

NextTasks ==
    \/ \E m \in TaskInbox : Runs(m, "cmd_set_profile") /\ cmd_set_profile(m[1], Message[m[2]]) /\ Replying
    \/ \E m \in TaskInbox : Runs(m, "process_weight") /\ process_weight(m[1], Message[m[2]]) /\ Replying
    \/ \E m \in TaskInbox : Runs(m, "process_height") /\ process_height(m[1], Message[m[2]]) /\ Replying
    \/ \E m \in TaskInbox : Runs(m, "process_age") /\ process_age(m[1], Message[m[2]]) /\ Replying
    \/ \E m \in TaskInbox : Runs(m, "process_activity") /\ process_activity(m[1], Message[m[2]]) /\ Replying
    \/ \E m \in TaskInbox : Runs(m, "cmd_log_water") /\ cmd_log_water(m[1], Message[m[2]]) /\ Replying
    \/ \E m \in TaskInbox : Runs(m, "cmd_log_food") /\ cmd_log_food(m[1], Message[m[2]]) /\ Replying
    \/ \E m \in TaskInbox : Runs(m, "process_food_grams") /\ process_food_grams(m[1], Message[m[2]]) /\ Replying
    \/ \E m \in TaskInbox : Runs(m, "unhandled") /\ unhandled(m[1], Message[m[2]]) /\ UNCHANGED inflight
    \/ \E m \in TaskInbox : request_sent(m)
    \/ Returned("process_city") /\ process_city(blocking[1][1], Message[blocking[1][2]]) /\ Replying
    \/ Returned("cmd_log_food") /\ cmd_log_food(blocking[1][1], Message[blocking[1][2]]) /\ Replying
    \/ \E task \in BagToSet(inflight) : answer_sent(task)

SpecTasks == InitTasks /\ [][NextTasks]_vars

(***************************************************************************)
(* The goal calculators alone.  The answers of a finished dialog are drawn *)
(* from sets of accepted values, all of them binary fractions, on which    *)
(* the source's float arithmetic is exact; each step applies one           *)
(* calculator to them and records the call in `out`.                       *)
(***************************************************************************)
GoalWeights == {Fin(30 * Scale), Fin(70 * Scale), Fin(70 * Scale + Scale \div 2)}
GoalHeights == {Fin(30 * Scale), Fin(175 * Scale)}
GoalAges == {30, 31}
GoalActivities == {0, 30, 45}
GoalTemperatures ==
    {<<>>, <<Fin(20 * Scale)>>, <<Fin(25 * Scale)>>, <<Fin(28 * Scale)>>,
     <<Fin(30 * Scale)>>, <<Fin(31 * Scale)>>}

GoalInputs ==
    [weight : GoalWeights, height : GoalHeights, age : GoalAges,
     activity : GoalActivities]

InitGoals ==
    /\ users = [u \in {} |-> 0]
    /\ state = [u \in Users |-> NoState]
    /\ \E d \in GoalInputs : data = [u \in Users |-> IF u = 1 THEN d ELSE EmptyDict]
    /\ out = [user |-> 0, at |-> NoState, handler |-> "none", reply |-> [kind |-> "none"]]
    /\ vocabulary = "goals"
    /\ inflight = EmptyBag
    /\ blocking = <<>>

Called(name, args, result) ==
    /\ out' = [user |-> 1, at |-> state[1], handler |-> name,
               reply |-> [kind |-> "returned", args |-> args, result |-> result]]
    /\ UNCHANGED <<users, state, data, vocabulary, inflight, blocking>>

water_goal_called(d, temperature) ==
    Called("calculate_water_goal",
           [weight |-> d.weight, activity |-> d.activity, temperature |-> temperature],
           calculate_water_goal(d.weight, d.activity, temperature))

calorie_goal_called(d) ==
    Called("calculate_calorie_goal", d,
           calculate_calorie_goal(d.weight, d.height, d.age, d.activity))

NextGoals ==
    \/ \E temperature \in GoalTemperatures : water_goal_called(data[1], temperature)
    \/ calorie_goal_called(data[1])

(***************************************************************************)
(* Two users.  Both users send the texts of the vocabulary, in any order.  *)
(***************************************************************************)
InitPair ==
    /\ users = [u \in {} |-> 0]
    /\ state = [u \in Users |-> NoState]
    /\ data = [u \in Users |-> EmptyDict]
    /\ out = [user |-> 0, at |-> NoState, handler |-> "none", reply |-> [kind |-> "none"]]
    /\ vocabulary = "pair"
    /\ inflight = EmptyBag
    /\ blocking = <<>>

PairInbox == Users \X Vocabularies[vocabulary]

NextPair ==
    \/ \E m \in PairInbox : Routed(m[1], m[2], "cmd_set_profile") /\ cmd_set_profile(m[1], Message[m[2]]) /\ Awaited
    \/ \E m \in PairInbox : Routed(m[1], m[2], "process_weight") /\ process_weight(m[1], Message[m[2]]) /\ Awaited
    \/ \E m \in PairInbox : Routed(m[1], m[2], "process_height") /\ process_height(m[1], Message[m[2]]) /\ Awaited
    \/ \E m \in PairInbox : Routed(m[1], m[2], "process_age") /\ process_age(m[1], Message[m[2]]) /\ Awaited
    \/ \E m \in PairInbox : Routed(m[1], m[2], "process_activity") /\ process_activity(m[1], Message[m[2]]) /\ Awaited
    \/ \E m \in PairInbox : Routed(m[1], m[2], "process_city") /\ process_city(m[1], Message[m[2]]) /\ Awaited
    \/ \E m \in PairInbox : Routed(m[1], m[2], "cmd_log_water") /\ cmd_log_water(m[1], Message[m[2]]) /\ Awaited
    \/ \E m \in PairInbox : Routed(m[1], m[2], "unhandled") /\ unhandled(m[1], Message[m[2]]) /\ Awaited

SpecPair == InitPair /\ [][NextPair]_vars

SpecGoals == InitGoals /\ [][NextGoals]_vars

(***************************************************************************)
(* find_in_local_db alone.  A normalized product name is drawn from the    *)
(* short strings over a few letters of the keys and from names chosen for  *)
(* the cases of the loop; the step applies the lookup to it.               *)
(***************************************************************************)
NameLetters == {"r", "i", "s", "a"}

ShortNames == UNION {[1..n -> NameLetters] : n \in 1..MaxNameLen}

ChosenNames ==
    {<<"b", "a", "n", "a", "n", "y">>, <<"h", "l", "e">>, <<"h", "a", "i">>,
     <<"r", "y", "s">>, <<"k", "o", "f", "a">>, <<"p", "l", "o", "v">>,
     <<"c", "h", "e", "r", "n", "y", "i", " ", "h", "l", "e", "b">>,
     <<"c", "h", "a", "l", "e">>, <<"b", "o", "n", "o", "n">>}

ProductNames ==
    {name \in ShortNames \cup ChosenNames : ExactKeys(name) = {}}

InitLookup ==
    /\ users = [u \in {} |-> 0]
    /\ state = [u \in Users |-> NoState]
    /\ \E name \in ProductNames :
          data = [u \in Users |-> IF u = 1 THEN [product_name |-> name] ELSE EmptyDict]
    /\ out = [user |-> 0, at |-> NoState, handler |-> "none", reply |-> [kind |-> "none"]]
    /\ vocabulary = "goals"
    /\ inflight = EmptyBag
    /\ blocking = <<>>

find_in_local_db_called(d) ==
    Called("find_in_local_db", d, find_in_local_db(d.product_name))

NextLookup == find_in_local_db_called(data[1])

SpecLookup == InitLookup /\ [][NextLookup]_vars

(***************************************************************************)
(* The dialog and the commands.                                            *)
(***************************************************************************)

\* C1: in every state where a dialog is active (a ProfileSetup step or
\* FoodLogging waiting for grams), every inbound message, a recognized
\* command included, is handled as the answer to the current step: the
\* handler that runs is the step's handler, never a command's.
C1_DialogConsumesEveryMessage ==
    /\ out.at = ProfileSetup_weight => out.handler = "process_weight"
    /\ out.at = ProfileSetup_height => out.handler = "process_height"
    /\ out.at = ProfileSetup_age => out.handler = "process_age"
    /\ out.at = ProfileSetup_activity => out.handler = "process_activity"
    /\ out.at = ProfileSetup_city => out.handler = "process_city"
    /\ out.at = FoodLogging_waiting_for_grams => out.handler = "process_food_grams"

\* C2: the user map is written by the setup dialog only when the city step
\* completes.  set_profile and the weight, height, age and activity steps
\* never change the user map; a step other than weight is entered only from
\* its predecessor, by the predecessor's handler; and a user's profile
\* appears, disappears or changes its inputs only in a process_city step
\* taken at the city step whose pending weight, height, age and activity
\* are all in range, which stores exactly those and ends the dialog.
C2_ProfileWrittenOnlyAtCity ==
    [][\A u \in Users :
        /\ out'.handler \in {"cmd_set_profile", "process_weight", "process_height",
                             "process_age", "process_activity"}
              => users' = users
        /\ state'[u] # state[u] =>
              /\ state'[u] = ProfileSetup_height =>
                    state[u] = ProfileSetup_weight /\ out'.handler = "process_weight"
              /\ state'[u] = ProfileSetup_age =>
                    state[u] = ProfileSetup_height /\ out'.handler = "process_height"
              /\ state'[u] = ProfileSetup_activity =>
                    state[u] = ProfileSetup_age /\ out'.handler = "process_age"
              /\ state'[u] = ProfileSetup_city =>
                    state[u] = ProfileSetup_activity /\ out'.handler = "process_activity"
        /\ \/ (u \in DOMAIN users') # (u \in DOMAIN users)
           \/ /\ u \in DOMAIN users /\ u \in DOMAIN users'
              /\ \E f \in {"weight", "height", "age", "activity", "city"} :
                    users'[u][f] # users[u][f]
           => /\ out'.user = u /\ out'.handler = "process_city"
              /\ state[u] = ProfileSetup_city /\ state'[u] = NoState
              /\ u \in DOMAIN users'
              /\ {"weight", "height", "age", "activity"} \subseteq DOMAIN data[u]
              /\ data[u].weight.k = "fin"
              /\ data[u].weight.v > 0 /\ data[u].weight.v <= 500 * Scale
              /\ data[u].height.k = "fin"
              /\ data[u].height.v > 0 /\ data[u].height.v <= 300 * Scale
              /\ data[u].age \in 1..150
              /\ data[u].activity \in 0..1440
              /\ \A f \in {"weight", "height", "age", "activity"} :
                    users'[u][f] = data[u][f]
    ]_vars

\* C2 witness: a user with a profile and water logged has gone through a
\* second setup up to the city step, the profile still in place.
C2_Witness ==
    /\ 1 \in DOMAIN users
    /\ users[1].logged_water > 0
    /\ state[1] = ProfileSetup_city
    /\ out.handler = "process_activity"
    /\ out.reply.kind = "ask_city"

\* C3: while ProfileSetup is active the step changes only from a step to
\* its immediate successor (weight, height, age, activity, city, complete),
\* and only on a valid answer to the current step; it never skips a step
\* and never moves back.
C3_StepOnlyAdvances ==
    [][\A u \in Users :
        /\ state[u] \in {ProfileSetup_weight, ProfileSetup_height, ProfileSetup_age,
                         ProfileSetup_activity, ProfileSetup_city}
        /\ state'[u] # state[u]
        => \/ /\ state[u] = ProfileSetup_weight /\ state'[u] = ProfileSetup_height
              /\ data'[u].weight.k = "fin"
              /\ data'[u].weight.v > 0 /\ data'[u].weight.v <= 500 * Scale
           \/ /\ state[u] = ProfileSetup_height /\ state'[u] = ProfileSetup_age
              /\ data'[u].height.k = "fin"
              /\ data'[u].height.v > 0 /\ data'[u].height.v <= 300 * Scale
           \/ /\ state[u] = ProfileSetup_age /\ state'[u] = ProfileSetup_activity
              /\ data'[u].age \in 1..150
           \/ /\ state[u] = ProfileSetup_activity /\ state'[u] = ProfileSetup_city
              /\ data'[u].activity \in 0..1440
           \/ /\ state[u] = ProfileSetup_city /\ state'[u] = NoState
    ]_vars

\* C4: an invalid answer (one that is no number, or a number out of the
\* step's range) handled at the weight, height, age or activity step leaves
\* the step, the pending fields and the user map unchanged.
C4_InvalidAnswerChangesNothing ==
    [][\A u \in Users : \A text \in Texts :
        LET x == float_of_str(replace(text, ",", "."))
            n == int_of_str(text)
            real == x # <<>> /\ x[1].k = "fin"
        IN  \/ /\ Routed(u, text, "process_weight")
               /\ ~(real /\ x[1].v > 0 /\ x[1].v <= 500 * Scale)
               /\ process_weight(u, Message[text])
            \/ /\ Routed(u, text, "process_height")
               /\ ~(real /\ x[1].v > 0 /\ x[1].v <= 300 * Scale)
               /\ process_height(u, Message[text])
            \/ /\ Routed(u, text, "process_age")
               /\ ~(n # <<>> /\ n[1] > 0 /\ n[1] <= 150)
               /\ process_age(u, Message[text])
            \/ /\ Routed(u, text, "process_activity")
               /\ ~(n # <<>> /\ n[1] >= 0 /\ n[1] <= 1440)
               /\ process_activity(u, Message[text])
            => UNCHANGED <<users, state, data>>
    ]_vars

\* C5: whenever ProfileSetup completes, the stored water_goal is
\* floor(weight * 30 + floor(activity / 30) * 500 + weather bonus), the
\* bonus 1000 above 30 degrees, 500 above 25, 0 otherwise or when the
\* lookup returned nothing, and the stored calorie_goal is
\* 10 * weight + 6.25 * height - 5 * age + 5 * activity truncated to an
\* integer, where weight, height, age and activity are the pending answers:
\* each pending answer is written only by its own step's handler, as the
\* number the handled text reads as.
C5_GoalsFromLastAnswers ==
    [][\A u \in Users :
        /\ out'.user = u /\ out'.handler = "process_city"
           /\ out'.reply.kind = "profile_saved"
           => LET w == data[u].weight.v
                  h == data[u].height.v
                  t == out'.reply.temperature
                  bonus == IF t = <<>> THEN 0
                           ELSE IF t[1].v > 30 * Scale THEN 1000
                           ELSE IF t[1].v > 25 * Scale THEN 500 ELSE 0
              IN  /\ users'[u].water_goal =
                        (w * 30 + ((data[u].activity \div 30) * 500 + bonus) * Scale)
                            \div Scale
                  /\ users'[u].calorie_goal =
                        (1000 * w + 625 * h
                            + (5 * data[u].activity - 5 * data[u].age) * 100 * Scale)
                            \div (100 * Scale)
                  /\ users'[u].weight = data[u].weight
                  /\ users'[u].height = data[u].height
                  /\ users'[u].age = data[u].age
                  /\ users'[u].activity = data[u].activity
        /\ \A key \in {"weight", "height", "age", "activity"} :
              /\ key \in DOMAIN data'[u]
              /\ key \in DOMAIN data[u] => data'[u][key] # data[u][key]
              => /\ out'.user = u
                 /\ out'.handler = "process_" \o key
                 /\ out'.at = "ProfileSetup:" \o key
                 /\ \E text \in Vocabularies[vocabulary] :
                       /\ Routed(u, text, out'.handler)
                       /\ IF key \in {"weight", "height"}
                          THEN float_of_str(replace(text, ",", ".")) = <<data'[u][key]>>
                          ELSE int_of_str(text) = <<data'[u][key]>>
    ]_vars

\* C5 witness: a setup answered 70,5 kg, 30 cm, 30 years, 30 minutes has
\* completed with a temperature above 30 degrees: water goal
\* floor(2115 + 500 + 1000), calorie goal trunc(705 + 187.5 - 150 + 150).
C5_Witness ==
    /\ out.handler = "process_city" /\ out.reply.kind = "profile_saved"
    /\ out.reply.temperature = <<Fin(31 * Scale)>>
    /\ users[out.user].weight = Fin(7050)
    /\ users[out.user].height = Fin(3000)
    /\ users[out.user].age = 30
    /\ users[out.user].activity = 30
    /\ users[out.user].water_goal = 3615
    /\ users[out.user].calorie_goal = 892

\* C6: completing ProfileSetup, for a new user and for a user who already
\* has a record, stores in one step a record with logged_water 0,
\* logged_calories 0 and burned_calories 0 and leaves no active dialog; the
\* user map never changes at the city step without the dialog ending in
\* the same step.
C6_CompletionIsAtomic ==
    [][\A u \in Users :
        /\ out'.user = u /\ out'.handler = "process_city"
           /\ out'.reply.kind = "profile_saved"
           => /\ u \in DOMAIN users'
              /\ users'[u].logged_water = 0
              /\ users'[u].logged_calories = Fin(0)
              /\ users'[u].burned_calories = 0
              /\ state'[u] = NoState
              /\ data'[u] = EmptyDict
        /\ state[u] = ProfileSetup_city /\ users' # users
           => state'[u] = NoState /\ out'.reply.kind = "profile_saved"
    ]_vars

\* C6 witness: a setup has completed for a user who already had a record.
C6_Witness ==
    /\ out.handler = "process_city" /\ out.reply.kind = "profile_saved"
    /\ out.reply.replaced
    /\ users[out.user].logged_water = 0
    /\ users[out.user].burned_calories = 0
    /\ state[out.user] = NoState

\* C7: for a user without a profile, log_water, log_food, log_workout and
\* check_progress each answer that a profile is required, and change
\* neither the user map nor any user's dialog state or pending data.
C7_ProfileRequired ==
    [][\A u \in Users :
        /\ u \notin DOMAIN users
        /\ out'.user = u
        /\ out'.handler \in {"cmd_log_water", "cmd_log_food", "cmd_log_workout",
                             "cmd_check_progress"}
        => /\ out'.reply.kind = "profile_required"
           /\ UNCHANGED <<users, state, data>>
    ]_vars

\* C7 witness: log_food was refused to a user without a profile.
C7_Witness ==
    /\ out.handler = "cmd_log_food" /\ out.reply.kind = "profile_required"
    /\ out.user \notin DOMAIN users
    /\ state[out.user] = NoState

\* C8: for a user with a profile and an integer amount > 0, log_water
\* increases logged_water by exactly the amount, reports
\* remaining = max(0, water_goal - logged_water) of the updated total, and
\* changes nothing else.
C8_LogWaterAddsAmount ==
    [][\A u \in Users : \A text \in Vocabularies[vocabulary] :
        /\ Routed(u, text, "cmd_log_water")
        /\ u \in DOMAIN users
        /\ Len(split(text)) >= 2
        /\ int_of_str(split(text)[2]) # <<>>
        /\ int_of_str(split(text)[2])[1] > 0
        /\ cmd_log_water(u, Message[text])
        => LET amount == int_of_str(split(text)[2])[1]
               total == users[u].logged_water + amount
           IN  /\ users' = [users EXCEPT ![u].logged_water = total]
               /\ out'.reply.remaining =
                     IF users[u].water_goal - total > 0
                     THEN users[u].water_goal - total ELSE 0
               /\ UNCHANGED <<state, data>>
    ]_vars

\* C8 witness: water was logged past the goal, the remaining amount
\* reported as 0.
C8_Witness ==
    /\ out.handler = "cmd_log_water" /\ out.reply.kind = "water_logged"
    /\ out.reply.amount = 800
    /\ users[out.user].logged_water = 1600
    /\ users[out.user].water_goal < 1600
    /\ out.reply.remaining = 0

\* C9: for a user with a profile, any workout type and integer minutes > 0,
\* log_workout increases burned_calories by rate * minutes, the rate being
\* the table's value for the lower-cased type, or 5 for a type not in the
\* table, and increases water_goal by 200 * ceil(minutes / 30); beg for 45
\* minutes adds 450 kcal and 400 ml.
C9_LogWorkout ==
    [][\A u \in Users : \A text \in Vocabularies[vocabulary] :
        /\ Routed(u, text, "cmd_log_workout")
        /\ u \in DOMAIN users
        /\ Len(split(text)) >= 3
        /\ int_of_str(split(text)[3]) # <<>>
        /\ int_of_str(split(text)[3])[1] > 0
        /\ cmd_log_workout(u, Message[text])
        => LET type == lower(split(text)[2])
               minutes == int_of_str(split(text)[3])[1]
               rate == IF type \in DOMAIN WORKOUT_CALORIES
                       THEN WORKOUT_CALORIES[type] ELSE 5
           IN  /\ users' = [users EXCEPT
                      ![u].burned_calories = @ + rate * minutes,
                      ![u].water_goal = @ + 200 * ((minutes + 29) \div 30)]
               /\ text = Txt.LogWorkoutBeg45 =>
                     /\ users'[u].burned_calories = users[u].burned_calories + 450
                     /\ users'[u].water_goal = users[u].water_goal + 400
               /\ UNCHANGED <<state, data>>
    ]_vars

\* C9 witness: "Beg" for 45 minutes and then a type not in the table for
\* 30 minutes were logged: 450 + 150 kcal burned.
C9_Witness ==
    /\ out.handler = "cmd_log_workout" /\ out.reply.kind = "workout_logged"
    /\ out.reply.workout_type \notin DOMAIN WORKOUT_CALORIES
    /\ out.reply.minutes = 30
    /\ out.reply.burned_calories = 150
    /\ users[out.user].burned_calories = 600

\* C10: while the grams of a food are awaited, an answer that reads as a
\* positive decimal adds calories_per_100g / 100 * grams of the pending
\* entry to logged_calories and clears the session; any other answer
\* handled at that step leaves the user map, the pending entry and the
\* state unchanged.
C10_GramsAnswer ==
    [][\A u \in Users : \A text \in Vocabularies[vocabulary] :
        /\ Routed(u, text, "process_food_grams")
        /\ process_food_grams(u, Message[text])
        => LET x == float_of_str(replace(text, ",", "."))
           IN  IF x # <<>> /\ x[1].k = "fin" /\ x[1].v > 0
               THEN /\ users' = [users EXCEPT ![u].logged_calories =
                           Fin(@.v + data[u].food_calories * x[1].v)]
                    /\ state'[u] = NoState
                    /\ data'[u] = EmptyDict
               ELSE UNCHANGED <<users, state, data>>
    ]_vars

(***************************************************************************)
(* Food resolution.                                                        *)
(***************************************************************************)

\* C11: the dialog becomes FoodLogging, or its pending entry changes, only
\* in a log_food step of a user who has a profile, with an entry
\* get_food_info returned for the product whose calories are not 0; when
\* the product resolves to nothing or to an entry of 0 calories (the local
\* tea entry included), log_food answers not-found and the user map, the
\* dialog state and the pending data stay as they were.
C11_FoodLoggingOnlyAfterResolution ==
    [][\A u \in Users :
        /\ /\ state'[u] = FoodLogging_waiting_for_grams
           /\ state[u] # FoodLogging_waiting_for_grams \/ data'[u] # data[u]
           => /\ out'.user = u /\ out'.handler = "cmd_log_food"
              /\ u \in DOMAIN users
              /\ data'[u].food_calories # 0
              /\ \E text \in Vocabularies[vocabulary] : \E remote \in RemoteFoodOutcomes :
                    /\ Routed(u, text, "cmd_log_food")
                    /\ FoodInfo[text][remote] =
                          <<[name |-> data'[u].food_name,
                             calories |-> data'[u].food_calories]>>
        /\ \A text \in Vocabularies[vocabulary] :
              /\ Routed(u, text, "cmd_log_food")
              /\ u \in DOMAIN users
              /\ Len(Message[text].food_args) >= 2
              /\ cmd_log_food(u, Message[text])
              /\ LET local == IF Tiers[text].exact # <<>> THEN Tiers[text].exact
                              ELSE Tiers[text].fuzzy
                     request == out'.reply.request
                 IN  IF local # <<>> THEN local[1].calories = 0
                     ELSE \/ request = <<>>
                          \/ request[1] = <<>>
                          \/ request[1][1].calories = 0
              => /\ out'.reply.kind = "not_found"
                 /\ UNCHANGED <<users, state, data>>
    ]_vars

\* C11 witness: while the grams of the banana entry were awaited, log_food
\* of the local tea entry (0 kcal) answered not-found and left the pending
\* entry and the state in place.
C11_Witness ==
    /\ out.handler = "cmd_log_food" /\ out.reply.kind = "not_found"
    /\ out.reply.product_name = KEY.CHAI
    /\ out.reply.request = <<>>
    /\ state[out.user] = FoodLogging_waiting_for_grams
    /\ data[out.user].food_name = NAME.BANAN
    /\ data[out.user].food_calories = 89

\* C12: get_food_info consults the tiers in a fixed order.  The remote
\* request is made exactly when neither the exact key nor the fuzzy search
\* of the local catalog returns an entry; an entry of a local tier is the
\* result whatever the remote service would answer; and a remote product
\* is accepted exactly when it carries calories other than 0.
C12_TierOrder ==
    [][\A u \in Users : \A text \in Vocabularies[vocabulary] :
        /\ Routed(u, text, "cmd_log_food")
        /\ u \in DOMAIN users
        /\ Len(Message[text].food_args) >= 2
        /\ cmd_log_food(u, Message[text])
        => LET exact == Tiers[text].exact
               fuzzy == Tiers[text].fuzzy
               local == IF exact # <<>> THEN exact ELSE fuzzy
               request == out'.reply.request
               asked == out'.reply.kind = "ask_grams"
           IN  /\ request # <<>> <=> exact = <<>> /\ fuzzy = <<>>
               /\ local # <<>> =>
                     /\ asked <=> local[1].calories # 0
                     /\ asked => /\ out'.reply.name = local[1].name
                                 /\ out'.reply.calories = local[1].calories
               /\ request # <<>> =>
                     /\ asked <=> request[1] # <<>> /\ request[1][1].calories # 0
                     /\ asked => out'.reply.calories = request[1][1].calories
               /\ asked => /\ data'[u].food_name = out'.reply.name
                           /\ data'[u].food_calories = out'.reply.calories
    ]_vars

\* C12 witness: a product in neither local tier was asked for, the remote
\* request was made and its product, with calories, accepted.
C12_Witness ==
    /\ out.handler = "cmd_log_food" /\ out.reply.kind = "ask_grams"
    /\ out.reply.request # <<>> /\ out.reply.request[1] # <<>>
    /\ out.reply.request[1][1].calories = 100
    /\ data[out.user].food_name = NAME.REMOTE
    /\ data[out.user].food_calories = 100

(***************************************************************************)
(* Tasks                                                                   *)
(***************************************************************************)

\* The step handled a message: its task is now sending the reply in out'.
Handled ==
    inflight' = inflight (+) SetToBag({[user |-> out'.user, handler |-> out'.handler]})

\* C13: no log_water update is lost when the handling of several log_water
\* calls of one user is interleaved.  With any number of the user's
\* cmd_log_water tasks still in flight, a cmd_log_water step that accepts an
\* amount adds exactly that amount to the logged_water the earlier tasks
\* left, and no other step changes a user's logged_water, the end of a task
\* included, save a profile completion: when all tasks have finished the
\* total is the earlier value plus the sum of the accepted amounts.
C13_NoLostWaterUpdate ==
    [][\A u \in DOMAIN users :
        /\ Handled /\ out'.user = u /\ out'.handler = "cmd_log_water"
           /\ out'.reply.kind = "water_logged"
           => users'[u].logged_water = users[u].logged_water + out'.reply.amount
        /\ u \in DOMAIN users' /\ users'[u].logged_water # users[u].logged_water
           => /\ Handled /\ out'.user = u
              /\ \/ out'.handler = "cmd_log_water" /\ out'.reply.kind = "water_logged"
                 \/ out'.handler = "process_city" /\ out'.reply.kind = "profile_saved"
    ]_vars

\* C13 witness: two cmd_log_water tasks of one user are in flight at once
\* and the user's logged_water holds both amounts.
C13_Witness ==
    /\ CopiesIn([user |-> 1, handler |-> "cmd_log_water"], inflight) = 2
    /\ out.handler = "cmd_log_water" /\ out.reply.kind = "water_logged"
    /\ users[1].logged_water = 2 * out.reply.amount

\* C14: while a lookup triggered by one user is in flight (the weather
\* request of the city step, the remote request of /log_food), no exclusive
\* hold is kept: a message of a different user can be handled before the
\* lookup returns.
C14_OtherUsersProceedDuringLookup ==
    blocking # <<>> =>
        \E m \in TaskInbox :
            /\ m[1] # blocking[1][1]
            /\ ENABLED (/\ Runs(m, "cmd_set_profile")
                        /\ cmd_set_profile(m[1], Message[m[2]])
                        /\ Replying)

(***************************************************************************)
(* Collaborators                                                           *)
(***************************************************************************)

\* C15: a failing collaborator never keeps the triggering step from its
\* outcome.  A city step whose weather request failed still completes the
\* setup, and the stored water goal has weather bonus 0; a /log_food whose
\* remote request failed answers not-found and leaves profile, ledger and
\* session unchanged.
C15_CollaboratorFailureAbsorbed ==
    [][\A u \in Users : \A text \in Vocabularies[vocabulary] :
        /\ /\ Routed(u, text, "process_city")
           /\ process_city(u, Message[text])
           /\ out'.reply.kind = "profile_saved" => out'.reply.temperature = <<>>
           => /\ out'.reply.kind = "profile_saved"
              /\ state'[u] = NoState
              /\ u \in DOMAIN users'
              /\ users'[u].water_goal =
                     Trunc(data[u].weight.v * 30 + (data[u].activity \div 30) * 500 * Scale,
                           Scale)
        /\ /\ Routed(u, text, "cmd_log_food")
           /\ u \in DOMAIN users
           /\ cmd_log_food(u, Message[text])
           /\ out'.reply.kind \in {"not_found", "ask_grams"}
           /\ out'.reply.request = << <<>> >>
           => /\ out'.reply.kind = "not_found"
              /\ UNCHANGED <<users, state, data>>
    ]_vars

(***************************************************************************)
(* The goals                                                               *)
(***************************************************************************)

\* The real value of 10*weight + 6.25*height - 5*age + 5*activity in
\* 1/(100 * Scale) units.
CalorieFormula(d) ==
    1000 * d.weight.v + 625 * d.height.v + (5 * d.activity - 5 * d.age) * 100 * Scale

\* C16 as stated: calorie_goal_kcal(70, 175, 30, 0) is 1243.
C16_Example1243 ==
    /\ out.handler = "calculate_calorie_goal"
    /\ out.reply.args = [weight |-> Fin(70 * Scale), height |-> Fin(175 * Scale),
                         age |-> 30, activity |-> 0]
    => out.reply.result = 1243

\* C16, amended: calculate_calorie_goal returns 10*weight + 6.25*height
\* - 5*age + 5*activity truncated to an integer, which for (70, 175, 30, 0)
\* is 1643 (the formula's value there is 1643.75).
C16_Example1643 ==
    out.handler = "calculate_calorie_goal" =>
        LET d == out.reply.args
            kcal == out.reply.result
        IN  /\ kcal * 100 * Scale <= CalorieFormula(d)
            /\ CalorieFormula(d) < (kcal + 1) * 100 * Scale
            /\ d = [weight |-> Fin(70 * Scale), height |-> Fin(175 * Scale),
                    age |-> 30, activity |-> 0]
               => kcal = 1643

\* C16 witness: calculate_calorie_goal(70, 175, 30, 0) has returned.
C16_Witness ==
    /\ out.handler = "calculate_calorie_goal"
    /\ out.reply.args = [weight |-> Fin(70 * Scale), height |-> Fin(175 * Scale),
                         age |-> 30, activity |-> 0]
    /\ out.reply.result = 1643

\* The weather bonus of a temperature, by its tier.
Tier(temperature) ==
    IF temperature = <<>> THEN 0
    ELSE IF temperature[1].v <= 25 * Scale THEN 0
    ELSE IF temperature[1].v <= 30 * Scale THEN 1
    ELSE 2

TierBonus == <<0, 500, 1000>>

\* C17: calculate_water_goal returns floor(weight*30 + floor(activity/30)*500
\* + bonus), the bonus being 1000 above 30 degrees, 500 above 25 and up to
\* 30, and 0 up to 25 or with no temperature; exactly 25 gives 0, exactly 30
\* gives 500, and the goal of (70, 45, 28) is 3100.
C17_WaterGoalFormula ==
    out.handler = "calculate_water_goal" =>
        LET a == out.reply.args
            ml == out.reply.result
            bonus == TierBonus[Tier(a.temperature) + 1]
            blocks == CHOOSE n \in 0..a.activity :
                          30 * n <= a.activity /\ a.activity < 30 * (n + 1)
            real == a.weight.v * 30 + (blocks * 500 + bonus) * Scale
        IN  /\ ml * Scale <= real /\ real < (ml + 1) * Scale
            /\ a.temperature = <<Fin(25 * Scale)>> => bonus = 0
            /\ a.temperature = <<Fin(30 * Scale)>> => bonus = 500
            /\ a = [weight |-> Fin(70 * Scale), activity |-> 45,
                    temperature |-> <<Fin(28 * Scale)>>]
               => ml = 3100

\* C17 witness: calculate_water_goal(70, 45, 28) has returned 3100.
C17_Witness ==
    /\ out.handler = "calculate_water_goal"
    /\ out.reply.args = [weight |-> Fin(70 * Scale), activity |-> 45,
                         temperature |-> <<Fin(28 * Scale)>>]
    /\ out.reply.result = 3100

\* C18: calculate_water_goal never decreases when one argument grows and the
\* other two stay: a larger weight, a larger activity, a temperature of a
\* higher tier.
C18_WaterGoalMonotone ==
    out.handler = "calculate_water_goal" =>
        LET a == out.reply.args
            ml == out.reply.result
        IN  /\ \A weight \in GoalWeights :
                  weight.v >= a.weight.v =>
                      calculate_water_goal(weight, a.activity, a.temperature) >= ml
            /\ \A activity \in GoalActivities :
                  activity >= a.activity =>
                      calculate_water_goal(a.weight, activity, a.temperature) >= ml
            /\ \A temperature \in GoalTemperatures :
                  Tier(temperature) >= Tier(a.temperature) =>
                      calculate_water_goal(a.weight, a.activity, temperature) >= ml

\* C18 witness: a goal has been computed for arguments that each have a
\* larger value in the sets: the smallest weight, no activity, no
\* temperature.
C18_Witness ==
    /\ out.handler = "calculate_water_goal"
    /\ out.reply.args = [weight |-> Fin(30 * Scale), activity |-> 0, temperature |-> <<>>]
    /\ calculate_water_goal(Fin(70 * Scale), 0, <<>>) > out.reply.result
    /\ calculate_water_goal(Fin(30 * Scale), 45, <<>>) > out.reply.result
    /\ calculate_water_goal(Fin(30 * Scale), 0, <<Fin(31 * Scale)>>) > out.reply.result

(***************************************************************************)
(* The ledgers and the goals of a stored profile                           *)
(***************************************************************************)

\* C19: logged_water, logged_calories and burned_calories of every user are
\* at least 0 and never decrease from one state to the next; logged_water
\* changes only by /log_water, logged_calories only by an accepted grams
\* answer, burned_calories only by /log_workout.
C19_LedgersOnlyGrow ==
    [][\A u \in DOMAIN users' :
        LET new == users'[u]
        IN  /\ new.logged_water >= 0
            /\ new.burned_calories >= 0
            /\ new.logged_calories.k = "fin" /\ new.logged_calories.v >= 0
            /\ u \in DOMAIN users =>
                  LET old == users[u]
                  IN  /\ new.logged_water >= old.logged_water
                      /\ new.burned_calories >= old.burned_calories
                      /\ old.logged_calories.k = "fin"
                         => new.logged_calories.v >= old.logged_calories.v
                      /\ new.logged_water # old.logged_water
                         => out'.user = u /\ out'.handler = "cmd_log_water"
                      /\ new.logged_calories # old.logged_calories
                         => /\ out'.user = u /\ out'.handler = "process_food_grams"
                            /\ out'.reply.kind = "food_logged"
                      /\ new.burned_calories # old.burned_calories
                         => out'.user = u /\ out'.handler = "cmd_log_workout"
    ]_vars

\* C20: between two profile completions of a user calorie_goal never
\* changes, and water_goal changes only in a /log_workout step, which
\* raises it; /log_water, /log_food, the grams answer, /check_progress,
\* /show_graph and /recommendations leave both goals as they are.
C20_GoalsFrame ==
    [][\A u \in DOMAIN users :
        LET completed == /\ out'.user = u /\ out'.handler = "process_city"
                         /\ out'.reply.kind = "profile_saved"
        IN  ~completed =>
                /\ u \in DOMAIN users'
                /\ users'[u].calorie_goal = users[u].calorie_goal
                /\ users'[u].water_goal # users[u].water_goal
                   => /\ out'.user = u /\ out'.handler = "cmd_log_workout"
                      /\ users'[u].water_goal > users[u].water_goal
                /\ out'.handler \in {"cmd_log_water", "cmd_log_food", "process_food_grams",
                                     "cmd_check_progress", "cmd_show_graph",
                                     "cmd_recommendations"}
                   => users'[u].water_goal = users[u].water_goal
    ]_vars

\* C20 witness: a workout was logged after the completion: the water goal is
\* the completion's goal plus the workout's extra water, the calorie goal
\* the completion's.
C20_Witness ==
    /\ out.handler = "cmd_log_workout" /\ out.reply.kind = "workout_logged"
    /\ out.reply.extra_water > 0
    /\ LET user == users[out.user]
       IN  /\ user.water_goal =
                  calculate_water_goal(user.weight, user.activity, <<>>)
                  + out.reply.extra_water
           /\ user.calorie_goal =
                  calculate_calorie_goal(user.weight, user.height, user.age, user.activity)

(***************************************************************************)
(* Stored profiles and sessions                                            *)
(***************************************************************************)

\* C21: every stored profile has its weight in (0, 500], its height in
\* (0, 300], an integer age in (0, 150] and integer activity minutes in
\* [0, 1440], whatever answers and commands came before.
C21_ProfileFieldsInRange ==
    \A u \in DOMAIN users :
        LET profile == users[u]
        IN  /\ profile.weight.k = "fin"
            /\ 0 < profile.weight.v /\ profile.weight.v <= 500 * Scale
            /\ profile.height.k = "fin"
            /\ 0 < profile.height.v /\ profile.height.v <= 300 * Scale
            /\ profile.age \in 1..150
            /\ profile.activity \in 0..1440

\* C21 witness: a profile was stored in a run whose texts include nan and
\* 0, with a decimal weight and the least activity.
C21_Witness ==
    /\ vocabulary = "setup"
    /\ out.handler = "process_city" /\ out.reply.kind = "profile_saved"
    /\ users[out.user].weight = Fin(70 * Scale + Scale \div 2)
    /\ users[out.user].activity = 0

\* The texts of the three commands with malformed or out-of-range
\* arguments, and with valid ones.
Malformed ==
    [cmd_log_water |-> {Txt.LogWaterNoArg, Txt.LogWaterBad, Txt.LogWaterZero},
     cmd_log_workout |-> {Txt.LogWorkoutNoMin, Txt.LogWorkoutZero},
     cmd_log_food |-> {Txt.LogFoodNoArg}]

WellFormed ==
    [cmd_log_water |-> {Txt.LogWater800},
     cmd_log_workout |-> {Txt.LogWorkoutBeg45, Txt.LogWorkoutTennis30},
     cmd_log_food |-> {Txt.LogFoodBanan, Txt.LogFoodBanany}]

Rejections == {"usage", "bad_amount", "bad_minutes"}

\* C22: /log_water with a missing, non-integer or non-positive amount,
\* /log_workout with missing arguments or non-positive minutes and /log_food
\* with no name are rejected and leave the user map and every session as
\* they were; the same command sent next with valid arguments succeeds.
C22_RejectedCommandChangesNothing ==
    [][\A u \in DOMAIN users : \A text \in Vocabularies[vocabulary] :
        /\ /\ text \in Malformed.cmd_log_water
           /\ Routed(u, text, "cmd_log_water") /\ cmd_log_water(u, Message[text])
           => out'.reply.kind \in Rejections /\ UNCHANGED <<users, state, data>>
        /\ /\ text \in Malformed.cmd_log_workout
           /\ Routed(u, text, "cmd_log_workout") /\ cmd_log_workout(u, Message[text])
           => out'.reply.kind \in Rejections /\ UNCHANGED <<users, state, data>>
        /\ /\ text \in Malformed.cmd_log_food
           /\ Routed(u, text, "cmd_log_food") /\ cmd_log_food(u, Message[text])
           => out'.reply.kind \in Rejections /\ UNCHANGED <<users, state, data>>
        /\ /\ out.user = u /\ out.reply.kind \in Rejections
           /\ out.handler = "cmd_log_water" /\ text \in WellFormed.cmd_log_water
           /\ Routed(u, text, "cmd_log_water") /\ cmd_log_water(u, Message[text])
           => /\ out'.reply.kind = "water_logged"
              /\ users'[u].logged_water > users[u].logged_water
        /\ /\ out.user = u /\ out.reply.kind \in Rejections
           /\ out.handler = "cmd_log_workout" /\ text \in WellFormed.cmd_log_workout
           /\ Routed(u, text, "cmd_log_workout") /\ cmd_log_workout(u, Message[text])
           => /\ out'.reply.kind = "workout_logged"
              /\ users'[u].burned_calories > users[u].burned_calories
        /\ /\ out.user = u /\ out.reply.kind \in Rejections
           /\ out.handler = "cmd_log_food" /\ text \in WellFormed.cmd_log_food
           /\ Routed(u, text, "cmd_log_food") /\ cmd_log_food(u, Message[text])
           => /\ out'.reply.kind = "ask_grams"
              /\ state'[u] = FoodLogging_waiting_for_grams
    ]_vars

\* C22 witness: a /log_water was rejected for its amount when the user had
\* water logged and a workout on the ledger.
C22_Witness ==
    /\ out.handler = "cmd_log_water" /\ out.reply.kind = "bad_amount"
    /\ users[out.user].logged_water > 0
    /\ users[out.user].burned_calories > 0

(***************************************************************************)
(* The fuzzy lookup                                                        *)
(***************************************************************************)

\* The catalog indices whose key contains the name or is contained in it.
SubstringKeys(name) ==
    {i \in DOMAIN LOCAL_FOOD_DATABASE :
        \/ contains(name, LOCAL_FOOD_DATABASE[i].key)
        \/ contains(LOCAL_FOOD_DATABASE[i].key, name)}

\* The catalog indices whose key attains the maximum score for the name.
BestKeys(name) ==
    {i \in DOMAIN LOCAL_FOOD_DATABASE :
        \A j \in DOMAIN LOCAL_FOOD_DATABASE :
            ~RatioGt(similarity(name, LOCAL_FOOD_DATABASE[j].key),
                     similarity(name, LOCAL_FOOD_DATABASE[i].key))}

\* C23: for a normalized name that is no catalog key, if some key is a
\* substring of the name or the name of a key, the lookup returns the entry
\* of the first such key in catalog order whatever the scores; otherwise it
\* returns the entry of the first key with the maximum score when that
\* score is above 0.6, and nothing when it is 0.6 or less.
C23_FuzzyLookup ==
    out.handler = "find_in_local_db" =>
        LET name == out.reply.args.product_name
            result == out.reply.result
            first == Min(BestKeys(name))
        IN  IF SubstringKeys(name) # {}
            THEN result = <<LOCAL_FOOD_DATABASE[Min(SubstringKeys(name))]>>
            ELSE IF RatioGt(similarity(name, LOCAL_FOOD_DATABASE[first].key), <<6, 10>>)
            THEN result = <<LOCAL_FOOD_DATABASE[first]>>
            ELSE result = <<>>

\* C23 witness: two keys tie with the maximum score, above 0.6, no key is
\* in a substring relation with the name, and the first of the two was
\* returned.
C23_Witness ==
    /\ out.handler = "find_in_local_db"
    /\ SubstringKeys(out.reply.args.product_name) = {}
    /\ Cardinality(BestKeys(out.reply.args.product_name)) = 2
    /\ out.reply.result = <<LOCAL_FOOD_DATABASE[Min(BestKeys(out.reply.args.product_name))]>>

\* The keys the session holds at each step of a dialog in progress.
PendingKeys ==
    [s \in States \ {NoState} |->
        CASE s = ProfileSetup_weight -> {}
          [] s = ProfileSetup_height -> {"weight"}
          [] s = ProfileSetup_age -> {"weight", "height"}
          [] s = ProfileSetup_activity -> {"weight", "height", "age"}
          [] s = ProfileSetup_city -> {"weight", "height", "age", "activity"}
          [] s = FoodLogging_waiting_for_grams -> {"food_name", "food_calories"}]

\* C24: the session holds only values collected for the dialog in
\* progress: nothing at the weight step, the answers of the completed steps
\* at each later setup step, the resolved name and calories while grams are
\* awaited; nothing of an abandoned or earlier dialog is present.
C24_PendingFieldsOfCurrentDialog ==
    \A u \in Users :
        state[u] # NoState => DOMAIN data[u] = PendingKeys[state[u]]

\* C25: whenever a user's dialog is the food logging, the user has a
\* profile and the pending entry has calories per 100 g other than 0, so
\* an accepted grams answer finds a ledger and never adds 0.
C25_GramsAwaitedWithProfileAndCalories ==
    /\ \A u \in Users :
          state[u] = FoodLogging_waiting_for_grams =>
              /\ u \in DOMAIN users
              /\ "food_calories" \in DOMAIN data[u]
              /\ data[u].food_calories # 0
    /\ out.handler = "process_food_grams" /\ out.reply.kind = "food_logged"
       => /\ out.user \in DOMAIN users
          /\ out.reply.calories # Fin(0)

\* C25 witness: grams are awaited for a second entry after the grams of a
\* first were accepted and added.
C25_Witness ==
    /\ state[1] = FoodLogging_waiting_for_grams
    /\ 1 \in DOMAIN users
    /\ users[1].logged_calories.k = "fin" /\ users[1].logged_calories.v > 0
    /\ data[1].food_calories > 0

(***************************************************************************)
(* Two users                                                               *)
(***************************************************************************)

C27_OneAdditionPerResolution ==
    [][\A u \in DOMAIN users :
        /\ u \in DOMAIN users'
        /\ users'[u].logged_calories.v > users[u].logged_calories.v
           => /\ Handled /\ out'.user = u /\ out'.handler = "process_food_grams"
              /\ state[u] = FoodLogging_waiting_for_grams
              /\ state'[u] = NoState
              /\ data'[u] = EmptyDict
        /\ state[u] # FoodLogging_waiting_for_grams
           /\ state'[u] = FoodLogging_waiting_for_grams
           => /\ Handled /\ out'.user = u /\ out'.handler = "cmd_log_food"
              /\ out'.reply.kind = "ask_grams"
    ]_vars

\* C27 witness: the grams of an entry were accepted and added, and a second
\* number of the user found no handler while the reply to the first was
\* still being sent.
C27_Witness ==
    /\ BagIn([user |-> 1, handler |-> "process_food_grams"], inflight)
    /\ out.user = 1 /\ out.handler = "unhandled" /\ out.at = NoState
    /\ users[1].logged_calories.v > 0
    /\ state[1] = NoState

====
